---- MODULE Spec2Model ----
(***************************************************************************)
(* Payment lifecycle of the payments service: the Payment entity and its   *)
(* transition table, the PaymentEvent log, the provider registry and the   *)
(* PaymentService orchestrator (createPayment, processWebhook,             *)
(* retryPayment, cancelPayment, recordCustomerRedirect).                   *)
(*                                                                         *)
(* Every async method of PaymentService is cut at the provider calls it    *)
(* awaits: the ...Call action runs the code up to the await, the           *)
(* ...Return action runs the code after it.  Spec lets one operation run   *)
(* to completion before the next starts; SpecConc lets a new request start *)
(* while another one is suspended in its provider call, which is what the  *)
(* single-threaded event loop does with concurrent HTTP requests.          *)
(***************************************************************************)
EXTENDS Integers, Sequences, FiniteSets, TLC

VARIABLES
    payments,     \* paymentStore.items: payment id -> Payment object (or NoPayment)
    events,       \* eventStore.items in insertion order
    inflight,     \* slot -> the operation suspended in a provider call (or Idle)
    last,         \* what the last step was and how it ended
    retryCalls,   \* payment id -> number of provider.createPayment calls made by retryPayment
    issued,       \* payment id -> number of transactions the provider has opened for it
    now,          \* the clock read by new Date()
    overlaps,     \* requests taken up so far while another operation was suspended
    providers,        \* providerManager.providers: provider id -> provider object (or None)
    defaultProvider,  \* providerManager.defaultProvider (or None)
    registrations     \* the register calls made so far, in order

registry == <<providers, defaultProvider, registrations>>

vars == <<payments, events, inflight, last, retryCalls, issued, now, overlaps, registry>>

-----------------------------------------------------------------------------
(* Bounds of the model *)

\* customer-redirected events recorded per payment
MaxRedirects == 1
\* retryPayment calls per payment whose provider call fails
MaxFailedRetries == 1
\* operations that may be suspended at once (SpecConc)
MaxInFlight == 2
\* requests taken up while another operation is suspended (SpecConc)
MaxOverlaps == 2
\* largest clock value (SpecEntity, SpecJSON)
MaxClock == 2
\* register calls on one PaymentProviderManager (SpecRegistry)
MaxRegistrations == 3
\* items held by one Store (SpecStore)
MaxItems == 2

(* Program constant: the retry cap of retryPayment *)
MaxRetries == 3

-----------------------------------------------------------------------------
(* PaymentStatus *)

INITIATED == "initiated"
AWAITING_PAYMENT == "awaiting_payment"
PROCESSING == "processing"
COMPLETED == "completed"
FAILED == "failed"
CANCELLED == "cancelled"

PaymentStatus == {INITIATED, AWAITING_PAYMENT, PROCESSING, COMPLETED, FAILED, CANCELLED}

(* PaymentEventType *)

PAYMENT_INITIATED == "payment_initiated"
PAYMENT_LINK_GENERATED == "payment_link_generated"
CUSTOMER_REDIRECTED == "customer_redirected"
PAYMENT_PROCESSING_STARTED == "payment_processing_started"
PAYMENT_COMPLETED == "payment_completed"
PAYMENT_FAILED == "payment_failed"
PAYMENT_RETRY_REQUESTED == "payment_retry_requested"
PAYMENT_CANCELLED == "payment_cancelled"

None == "undefined"          \* an absent optional value
NoPayment == [id |-> None]   \* paymentStore.get(id) finds nothing
Idle == [op |-> "idle"]      \* no operation suspended in the slot

-----------------------------------------------------------------------------
(* Input domains *)

PaymentIds == {"p1"}                       \* ids crypto.randomUUID() may hand out
RequestIds == PaymentIds                   \* ids a caller may name (unknown until created)
Amounts == {1000}
Currencies == {"rub", "GBP"}
MerchantIds == {"m1"}
Descriptions == {"d1"}
ProviderIdInputs == {None, "fake", "tbank-sbp", "other"}
WebhookProviderIds == {"fake", "tbank-sbp"}
TxIds == {"tx1"}                                 \* providerTransactionId a webhook may carry
ProviderErrors == {[code |-> "EXTERNAL_SERVICE_ERROR", message |-> "provider: refused"]}
WebhookErrors == {[errorCode |-> None, errorMessage |-> "declined"]}
WebhookStatuses == {"initiated", "pending", "processing", "completed", "failed",
                    "cancelled", "NEW", "AUTHORIZED", "CONFIRMED", "REJECTED", "bogus",
                    "constructor"}
Reasons == {"r1"}
CancelledBys == {"customer"}
Slots == 1..MaxInFlight

-----------------------------------------------------------------------------
(* Payment entity *)

(* A plausible slip in the table: cancelled reachable from processing *)
TransitionsMutCancel ==
    [s \in PaymentStatus |->
        CASE s = INITIATED -> {AWAITING_PAYMENT, FAILED}
          [] s = AWAITING_PAYMENT -> {PROCESSING, CANCELLED, FAILED}
          [] s = PROCESSING -> {COMPLETED, FAILED, CANCELLED}
          [] s = COMPLETED -> {}
          [] s = FAILED -> {AWAITING_PAYMENT}
          [] s = CANCELLED -> {}]

(* A plausible slip in the table: completed may fail afterwards *)
TransitionsMutTerminal ==
    [s \in PaymentStatus |->
        CASE s = INITIATED -> {AWAITING_PAYMENT, FAILED}
          [] s = AWAITING_PAYMENT -> {PROCESSING, CANCELLED, FAILED}
          [] s = PROCESSING -> {COMPLETED, FAILED}
          [] s = COMPLETED -> {FAILED}
          [] s = FAILED -> {AWAITING_PAYMENT}
          [] s = CANCELLED -> {}]

(* The table of canTransitionTo *)
Transitions ==
    [s \in PaymentStatus |->
        CASE s = INITIATED -> {AWAITING_PAYMENT, FAILED}
          [] s = AWAITING_PAYMENT -> {PROCESSING, CANCELLED, FAILED}
          [] s = PROCESSING -> {COMPLETED, FAILED}
          [] s = COMPLETED -> {}
          [] s = FAILED -> {AWAITING_PAYMENT}
          [] s = CANCELLED -> {}]

CanTransitionTo(p, newStatus) == newStatus \in Transitions[p.status]

PaymentCreate(id, amount, currency, merchantId, description, providerId, t) ==
    [id |-> id, status |-> INITIATED, amount |-> amount, currency |-> currency,
     merchantId |-> merchantId, description |-> description, providerId |-> providerId,
     paymentUrl |-> None, providerTransactionId |-> None, retryCount |-> 0,
     createdAt |-> t, updatedAt |-> t]

(* Mutant: updateStatus applies only the changes canTransitionTo allows *)
UpdateStatusMutGuarded(p, newStatus, t) ==
    IF CanTransitionTo(p, newStatus)
    THEN [p EXCEPT !.status = newStatus, !.updatedAt = t]
    ELSE p

UpdateStatus(p, newStatus, t) == [p EXCEPT !.status = newStatus, !.updatedAt = t]

SetPaymentUrl(p, url, t) == [p EXCEPT !.paymentUrl = url, !.updatedAt = t]

SetProviderTransactionId(p, id, t) == [p EXCEPT !.providerTransactionId = id, !.updatedAt = t]

(* Mutant: incrementRetryCount leaves the counter as it is *)
IncrementRetryCountMutNoop(p, t) == [p EXCEPT !.updatedAt = t]

IncrementRetryCount(p, t) == [p EXCEPT !.retryCount = @ + 1, !.updatedAt = t]

IsFinal(p) == p.status = COMPLETED \/ p.status = CANCELLED

-----------------------------------------------------------------------------
(* PaymentEvent: the static constructors; ids are fresh, here the next free number *)

NewEvent(id, paymentId, type, data, t) ==
    [id |-> id, paymentId |-> paymentId, type |-> type, data |-> data, timestamp |-> t]

PaymentInitiated(id, paymentId, amount, currency, merchantId, description, t) ==
    NewEvent(id, paymentId, PAYMENT_INITIATED,
             [amount |-> amount, currency |-> currency, merchantId |-> merchantId,
              description |-> description], t)

PaymentLinkGenerated(id, paymentId, paymentUrl, expiresAt, t) ==
    NewEvent(id, paymentId, PAYMENT_LINK_GENERATED,
             [paymentUrl |-> paymentUrl, expiresAt |-> expiresAt], t)

CustomerRedirected(id, paymentId, t) ==
    NewEvent(id, paymentId, CUSTOMER_REDIRECTED, [userAgent |-> None, ipAddress |-> None], t)

ProcessingStarted(id, paymentId, providerId, providerTransactionId, t) ==
    NewEvent(id, paymentId, PAYMENT_PROCESSING_STARTED,
             [providerId |-> providerId, providerTransactionId |-> providerTransactionId], t)

PaymentCompleted(id, paymentId, providerId, providerTransactionId, t) ==
    NewEvent(id, paymentId, PAYMENT_COMPLETED,
             [providerId |-> providerId, providerTransactionId |-> providerTransactionId,
              completedAt |-> t], t)

PaymentFailed(id, paymentId, errorCode, errorMessage, isRetryable, t) ==
    NewEvent(id, paymentId, PAYMENT_FAILED,
             [errorCode |-> errorCode, errorMessage |-> errorMessage,
              isRetryable |-> isRetryable], t)

RetryRequested(id, paymentId, attemptNumber, reason, t) ==
    NewEvent(id, paymentId, PAYMENT_RETRY_REQUESTED,
             [attemptNumber |-> attemptNumber, reason |-> reason], t)

PaymentCancelled(id, paymentId, reason, cancelledBy, t) ==
    NewEvent(id, paymentId, PAYMENT_CANCELLED,
             [reason |-> reason, cancelledBy |-> cancelledBy], t)

-----------------------------------------------------------------------------
(* Store<T>: items is a Map keyed by item.id, kept here in insertion order as *)
(* the Map keeps it                                                           *)

(* Store.has *)
Has(items, id) == \E i \in DOMAIN items : items[i].id = id

(* Store.save: items.set(item.id, item) replaces the value of a key that is *)
(* present, in place, and adds a new key at the end                         *)
Save(items, item) ==
    IF Has(items, item.id)
    THEN [i \in DOMAIN items |-> IF items[i].id = item.id THEN item ELSE items[i]]
    ELSE Append(items, item)

(* Store.save of each of the items in turn (at most one in this program) *)
SaveAll(items, new) == IF new = <<>> THEN items ELSE Save(items, new[1])

(* Store.get: items.get(id) || null *)
Get(items, id) ==
    IF Has(items, id) THEN items[CHOOSE i \in DOMAIN items : items[i].id = id] ELSE None

(* Store.find(e => e.type === type): getAll().filter(predicate) *)
FindByType(items, type) == SelectSeq(items, LAMBDA e : e.type = type)

(* Store.delete: items.delete(id) *)
Delete(items, id) == SelectSeq(items, LAMBDA item : item.id # id)

(* Store.clear *)
Clear(items) == <<>>

(* Store.size *)
Size(items) == Len(items)

(* Mutant: the id of an event is derived from the clock *)
FreshEventIdMutClock == now + 1

(* The id of a fresh event; crypto.randomUUID() never repeats an id *)
FreshEventId == Len(events) + 1

(* eventStore.find(e => e.paymentId === paymentId) *)
EventsOf(log, paymentId) == SelectSeq(log, LAMBDA e : e.paymentId = paymentId)

EventTypesOf(log, paymentId) ==
    [i \in 1..Len(EventsOf(log, paymentId)) |-> EventsOf(log, paymentId)[i].type]

CountType(log, paymentId, type) ==
    Len(SelectSeq(log, LAMBDA e : e.paymentId = paymentId /\ e.type = type))

-----------------------------------------------------------------------------
(* Providers and the registry as index.ts sets them up *)

NotFound == "NotFoundError"
Throws == "ValidationError"

(* The ids of the provider classes, FakeProvider and TBankSBPProvider; index.ts *)
(* registers one object of each                                               *)
RegisteredProviders == {"fake", "tbank-sbp"}
DefaultProvider == "fake"

(* Provider objects: two objects of one class have the same id *)
ProviderObjects == {[id |-> id, instance |-> n] : id \in RegisteredProviders, n \in 1..2}

(* No provider object: providers.get(id) finds nothing, defaultProvider is unset *)
NoProvider == [id |-> None]

(* new PaymentProviderManager() *)
NoProviders == [id \in RegisteredProviders |-> NoProvider]

(* Mutant: register leaves an id that is taken with the provider it has *)
RegisterProviderMutFirstWins(map, provider) ==
    IF map[provider.id] = NoProvider THEN [map EXCEPT ![provider.id] = provider] ELSE map

(* PaymentProviderManager.register: this.providers.set(provider.id, provider) *)
RegisterProvider(map, provider) == [map EXCEPT ![provider.id] = provider]

(* PaymentProviderManager.register: if (isDefault) this.defaultProvider = provider *)
RegisterDefault(current, provider, isDefault) == IF isDefault THEN provider ELSE current

(* The register calls of index.ts *)
IndexRegistrations ==
    <<[provider |-> [id |-> DefaultProvider, instance |-> 1], isDefault |-> TRUE],
      [provider |-> [id |-> "tbank-sbp", instance |-> 1], isDefault |-> FALSE]>>

(* this.providers.get(providerId) *)
LookupProvider(providerId) ==
    IF providerId \in DOMAIN providers THEN providers[providerId] ELSE NoProvider

(* PaymentProviderManager.getProvider: the provider found, named by its id, *)
(* which tells its class, or NotFound when it throws                        *)
GetProvider(providerId) ==
    IF LookupProvider(providerId) = NoProvider THEN NotFound ELSE LookupProvider(providerId).id

(* PaymentProviderManager.getDefaultProvider *)
GetDefaultProvider ==
    IF defaultProvider = NoProvider THEN NotFound ELSE defaultProvider.id

(* String.prototype.toUpperCase on the strings of the input domains *)
ToUpperCase(s) ==
    CASE s = "rub" -> "RUB"
      [] s = "initiated" -> "INITIATED"
      [] s = "pending" -> "PENDING"
      [] s = "processing" -> "PROCESSING"
      [] s = "completed" -> "COMPLETED"
      [] s = "failed" -> "FAILED"
      [] s = "cancelled" -> "CANCELLED"
      [] s = "bogus" -> "BOGUS"
      [] s = "constructor" -> "CONSTRUCTOR"
      [] OTHER -> s

(* String.prototype.toLowerCase on the strings of the input domains *)
ToLowerCase(s) ==
    CASE s = "GBP" -> "gbp"
      [] s = "NEW" -> "new"
      [] s = "AUTHORIZED" -> "authorized"
      [] s = "CONFIRMED" -> "confirmed"
      [] s = "REJECTED" -> "rejected"
      [] OTHER -> s

SupportedCurrencies(provider) ==
    IF provider = "fake" THEN {"RUB", "USD", "EUR"} ELSE {"RUB"}

(* FakeProvider.supportsCurrency, TBankSBPProvider.supportsCurrency *)
SupportsCurrency(provider, currency) ==
    ToUpperCase(currency) \in SupportedCurrencies(provider)

FakeStatusMap ==
    ("initiated" :> INITIATED) @@ ("pending" :> AWAITING_PAYMENT) @@
    ("awaiting_payment" :> AWAITING_PAYMENT) @@ ("processing" :> PROCESSING) @@
    ("completed" :> COMPLETED) @@ ("failed" :> FAILED) @@ ("cancelled" :> CANCELLED) @@
    ("success" :> COMPLETED) @@ ("error" :> FAILED) @@ ("rejected" :> FAILED)

TBankStatusMap ==
    ("NEW" :> AWAITING_PAYMENT) @@ ("FORM_SHOWED" :> AWAITING_PAYMENT) @@
    ("AUTHORIZING" :> PROCESSING) @@ ("AUTHORIZED" :> PROCESSING) @@
    ("3DS_CHECKING" :> PROCESSING) @@ ("3DS_CHECKED" :> PROCESSING) @@
    ("CONFIRMING" :> PROCESSING) @@ ("CONFIRMED" :> COMPLETED) @@
    ("REJECTED" :> FAILED) @@ ("CANCELLED" :> CANCELLED) @@ ("REFUNDED" :> CANCELLED) @@
    ("PARTIAL_REFUNDED" :> COMPLETED) @@ ("DEADLINE_EXPIRED" :> FAILED) @@
    ("ATTEMPTS_EXPIRED" :> FAILED)

(* statusMap is an object literal: a key it does not hold itself is looked up *)
(* on Object.prototype, where these names are defined and truthy              *)
InheritedKeys == {"constructor", "__proto__"}

(* What statusMap[key] yields for an inherited key: not a PaymentStatus *)
Inherited == "Object.prototype"

(* Mutant: a string missing from the provider's table is taken for a failure *)
MapStatusMutCoerce(provider, providerStatus) ==
    IF provider = "fake"
    THEN IF ToLowerCase(providerStatus) \in DOMAIN FakeStatusMap
         THEN FakeStatusMap[ToLowerCase(providerStatus)]
         ELSE FAILED
    ELSE IF ToUpperCase(providerStatus) \in DOMAIN TBankStatusMap
         THEN TBankStatusMap[ToUpperCase(providerStatus)]
         ELSE FAILED

(* FakeProvider.mapStatus, TBankSBPProvider.mapStatus: the internal status, *)
(* or Throws when the string is not in the provider's table                 *)
MapStatus(provider, providerStatus) ==
    IF provider = "fake"
    THEN IF ToLowerCase(providerStatus) \in DOMAIN FakeStatusMap
         THEN FakeStatusMap[ToLowerCase(providerStatus)]
         ELSE IF ToLowerCase(providerStatus) \in InheritedKeys THEN Inherited ELSE Throws
    ELSE IF ToUpperCase(providerStatus) \in DOMAIN TBankStatusMap
         THEN TBankStatusMap[ToUpperCase(providerStatus)]
         ELSE IF ToUpperCase(providerStatus) \in InheritedKeys THEN Inherited ELSE Throws

(* FakeProvider.createPayment, TBankSBPProvider.createPayment when they succeed: the *)
(* provider opens a transaction under an id it has not used before (the n-th one    *)
(* of the payment gets the n-th id) and returns the payment url that goes with it   *)
ProviderTxIds == <<"tx1", "tx2", "tx3", "tx4", "tx5", "tx6", "tx7", "tx8", "tx9", "tx10",
                   "tx11", "tx12">>

ProviderUrls == <<"pay/tx1", "pay/tx2", "pay/tx3", "pay/tx4", "pay/tx5", "pay/tx6",
                  "pay/tx7", "pay/tx8", "pay/tx9", "pay/tx10", "pay/tx11", "pay/tx12">>

ProviderCreatePayment(provider, n, t) ==
    [providerTransactionId |-> ProviderTxIds[n], paymentUrl |-> ProviderUrls[n],
     expiresAt |-> t + (IF provider = "fake" THEN 15 ELSE 30)]

(* Whether the provider's createPayment can reject: TBankSBPProvider throws an   *)
(* ExternalServiceError on a refusal or a transport failure, FakeProvider always *)
(* resolves                                                                      *)
CreatePaymentMayThrow(provider) == provider = "tbank-sbp"

(* a || b on optional strings *)
OrElse(a, b) == IF a # None /\ a # "" THEN a ELSE b

-----------------------------------------------------------------------------
(* Bookkeeping of the steps *)

NoneInFlight == \A s \in Slots : inflight[s] = Idle

HasIdleSlot == \E s \in Slots : inflight[s] = Idle

IdleSlot == CHOOSE s \in Slots : inflight[s] = Idle /\ \A r \in Slots : r < s => inflight[r] # Idle

(* The providerId, the status string and the providerTransactionId a webhook *)
(* carried; NoInput for the other operations                                *)
NoInput == [providerId |-> None, status |-> None, providerTransactionId |-> None]

Outcome(op, pid, result, mapped) ==
    [op |-> op, pid |-> pid, result |-> result, mapped |-> mapped, input |-> NoInput]

WebhookOutcome(pid, result, mapped, providerId, status, providerTransactionId) ==
    [Outcome("processWebhook", pid, result, mapped)
        EXCEPT !.input = [providerId |-> providerId, status |-> status,
                          providerTransactionId |-> providerTransactionId]]

(* The step ends the operation with an error before anything was written *)
Rejected(op, pid, result) ==
    /\ last' = Outcome(op, pid, result, None)
    /\ UNCHANGED <<payments, events, inflight, retryCalls, issued, now>>

InFlightOn(pid, op) == {s \in Slots : inflight[s].op = op /\ inflight[s].pid = pid}

Truthy(x) == x # None /\ x # ""

-----------------------------------------------------------------------------
(* PaymentService.createPayment up to the await of provider.createPayment *)

CreatePaymentCall(amount, currency, merchantId, description, providerId) ==
    LET provider == IF Truthy(providerId) THEN GetProvider(providerId)
                    ELSE GetDefaultProvider
    IN  /\ \E paymentId \in PaymentIds : payments[paymentId] = NoPayment
        /\ IF provider = NotFound
           THEN Rejected("createPayment", None, "not_found")
           ELSE IF ~SupportsCurrency(provider, currency)
           THEN Rejected("createPayment", None, "validation")
           ELSE
             /\ HasIdleSlot
             /\ \E paymentId \in PaymentIds :
                  /\ payments[paymentId] = NoPayment
                  /\ payments' = [payments EXCEPT ![paymentId] =
                         PaymentCreate(paymentId, amount, currency, merchantId,
                                       description, provider, now)]
                  /\ events' = Save(events,
                         PaymentInitiated(FreshEventId, paymentId, amount, currency,
                                          merchantId, description, now))
                  /\ inflight' = [inflight EXCEPT ![IdleSlot] =
                         [op |-> "createPayment", pid |-> paymentId,
                          reason |-> None, cancelledBy |-> None]]
                  /\ last' = Outcome("createPayment", paymentId, "awaiting", None)
             /\ UNCHANGED <<retryCalls, issued, now>>

(* Mutant: the provider's transaction id is not stored *)
CreatePaymentReturnOkMutNoTx(slot) ==
    /\ inflight[slot].op = "createPayment"
    /\ LET paymentId == inflight[slot].pid
           providerPayment == ProviderCreatePayment(payments[paymentId].providerId,
                                                    issued[paymentId] + 1, now)
           payment == UpdateStatus(
                        SetPaymentUrl(payments[paymentId], providerPayment.paymentUrl, now),
                        AWAITING_PAYMENT, now)
       IN  /\ payments' = [payments EXCEPT ![paymentId] = payment]
           /\ events' = Save(events,
                  PaymentLinkGenerated(FreshEventId, paymentId, providerPayment.paymentUrl,
                                       providerPayment.expiresAt, now))
           /\ last' = Outcome("createPayment", paymentId, "ok", providerPayment.paymentUrl)
           /\ issued' = [issued EXCEPT ![paymentId] = @ + 1]
    /\ inflight' = [inflight EXCEPT ![slot] = Idle]
    /\ UNCHANGED <<retryCalls, now>>

(* createPayment after the await: the provider returned a payment *)
CreatePaymentReturnOk(slot) ==
    /\ inflight[slot].op = "createPayment"
    /\ LET paymentId == inflight[slot].pid
           providerPayment == ProviderCreatePayment(payments[paymentId].providerId,
                                                    issued[paymentId] + 1, now)
           payment == UpdateStatus(
                        SetProviderTransactionId(
                          SetPaymentUrl(payments[paymentId], providerPayment.paymentUrl, now),
                          providerPayment.providerTransactionId, now),
                        AWAITING_PAYMENT, now)
       IN  /\ payments' = [payments EXCEPT ![paymentId] = payment]
           /\ events' = Save(events,
                  PaymentLinkGenerated(FreshEventId, paymentId, providerPayment.paymentUrl,
                                       providerPayment.expiresAt, now))
           /\ last' = Outcome("createPayment", paymentId, "ok", providerPayment.paymentUrl)
           /\ issued' = [issued EXCEPT ![paymentId] = @ + 1]
    /\ inflight' = [inflight EXCEPT ![slot] = Idle]
    /\ UNCHANGED <<retryCalls, now>>

(* Mutant: the catch block re-raises without recording the failure *)
CreatePaymentReturnErrorMutStuck(slot, error) ==
    /\ inflight[slot].op = "createPayment"
    /\ CreatePaymentMayThrow(payments[inflight[slot].pid].providerId)
    /\ last' = Outcome("createPayment", inflight[slot].pid, "external", None)
    /\ inflight' = [inflight EXCEPT ![slot] = Idle]
    /\ UNCHANGED <<payments, events, retryCalls, issued, now>>

(* createPayment after the await: the provider call threw; the catch block *)
CreatePaymentReturnError(slot, error) ==
    /\ inflight[slot].op = "createPayment"
    /\ CreatePaymentMayThrow(payments[inflight[slot].pid].providerId)
    /\ LET paymentId == inflight[slot].pid
       IN  /\ payments' = [payments EXCEPT ![paymentId] =
                  UpdateStatus(payments[paymentId], FAILED, now)]
           /\ events' = Save(events,
                  PaymentFailed(FreshEventId, paymentId, OrElse(error.code, "UNKNOWN_ERROR"),
                                error.message, FALSE, now))
           /\ last' = Outcome("createPayment", paymentId, "external", None)
    /\ inflight' = [inflight EXCEPT ![slot] = Idle]
    /\ UNCHANGED <<retryCalls, issued, now>>

-----------------------------------------------------------------------------
(* PaymentService.recordCustomerRedirect *)

(* Mutant: a redirect is also registered while the payment is being processed *)
RecordCustomerRedirectMutProcessing(paymentId) ==
    LET payment == payments[paymentId]
    IN  IF payment = NoPayment
        THEN Rejected("recordCustomerRedirect", paymentId, "not_found")
        ELSE IF payment.status \notin {AWAITING_PAYMENT, PROCESSING}
        THEN Rejected("recordCustomerRedirect", paymentId, "invalid_state")
        ELSE /\ CountType(events, paymentId, CUSTOMER_REDIRECTED) < MaxRedirects
             /\ events' = Save(events, CustomerRedirected(FreshEventId, paymentId, now))
             /\ last' = Outcome("recordCustomerRedirect", paymentId, "ok", None)
             /\ UNCHANGED <<payments, inflight, retryCalls, issued, now>>

(* Mutant: a redirect is refused only for a payment that isFinal() *)
RecordCustomerRedirectMutNotFinal(paymentId) ==
    LET payment == payments[paymentId]
    IN  IF payment = NoPayment
        THEN Rejected("recordCustomerRedirect", paymentId, "not_found")
        ELSE IF IsFinal(payment)
        THEN Rejected("recordCustomerRedirect", paymentId, "invalid_state")
        ELSE /\ CountType(events, paymentId, CUSTOMER_REDIRECTED) < MaxRedirects
             /\ events' = Save(events, CustomerRedirected(FreshEventId, paymentId, now))
             /\ last' = Outcome("recordCustomerRedirect", paymentId, "ok", None)
             /\ UNCHANGED <<payments, inflight, retryCalls, issued, now>>

RecordCustomerRedirect(paymentId) ==
    LET payment == payments[paymentId]
    IN  IF payment = NoPayment
        THEN Rejected("recordCustomerRedirect", paymentId, "not_found")
        ELSE IF payment.status # AWAITING_PAYMENT
        THEN Rejected("recordCustomerRedirect", paymentId, "invalid_state")
        ELSE /\ CountType(events, paymentId, CUSTOMER_REDIRECTED) < MaxRedirects
             /\ events' = Save(events, CustomerRedirected(FreshEventId, paymentId, now))
             /\ last' = Outcome("recordCustomerRedirect", paymentId, "ok", None)
             /\ UNCHANGED <<payments, inflight, retryCalls, issued, now>>

-----------------------------------------------------------------------------
(* PaymentService.processWebhook: the branches of the switch on the mapped  *)
(* status.  Each yields the payment as the branch leaves it, the events it  *)
(* appends and how the call ends.                                           *)

Unchanged(payment, result) == [payment |-> payment, appended |-> <<>>, result |-> result]

(* Mutant: a pending notification moves the payment wherever the table allows *)
DispatchPendingMutFromFailed(payment, t) ==
    IF CanTransitionTo(payment, AWAITING_PAYMENT)
    THEN [payment |-> UpdateStatus(payment, AWAITING_PAYMENT, t),
          appended |-> <<>>, result |-> "ok"]
    ELSE Unchanged(payment, "ok")

(* Mutant: a pending notification for a payment that cannot go to *)
(* awaiting_payment is refused like an illegal completion         *)
DispatchPendingMutRefuses(payment, t) ==
    IF payment.status = INITIATED /\ CanTransitionTo(payment, AWAITING_PAYMENT)
    THEN [payment |-> UpdateStatus(payment, AWAITING_PAYMENT, t),
          appended |-> <<>>, result |-> "ok"]
    ELSE IF ~CanTransitionTo(payment, AWAITING_PAYMENT)
    THEN Unchanged(payment, "invalid_state")
    ELSE Unchanged(payment, "ok")

(* case INITIATED, case AWAITING_PAYMENT *)
DispatchPending(payment, t) ==
    IF payment.status = INITIATED /\ CanTransitionTo(payment, AWAITING_PAYMENT)
    THEN [payment |-> UpdateStatus(payment, AWAITING_PAYMENT, t),
          appended |-> <<>>, result |-> "ok"]
    ELSE Unchanged(payment, "ok")

(* Mutant: a processing notification is always recorded *)
DispatchProcessingMutAlways(payment, paymentId, providerId, providerTransactionId, eid, t) ==
    [payment |-> UpdateStatus(payment, PROCESSING, t),
     appended |-> <<ProcessingStarted(eid, paymentId, providerId, providerTransactionId, t)>>,
     result |-> "ok"]

(* Mutant: the move to processing is not recorded in the event log *)
DispatchProcessingMutNoEvent(payment, paymentId, providerId, providerTransactionId, eid, t) ==
    IF CanTransitionTo(payment, PROCESSING)
    THEN [payment |-> UpdateStatus(payment, PROCESSING, t), appended |-> <<>>, result |-> "ok"]
    ELSE Unchanged(payment, "ok")

(* Mutant: a processing notification for a payment that is already being *)
(* processed is recorded again                                            *)
DispatchProcessingMutRepeat(payment, paymentId, providerId, providerTransactionId, eid, t) ==
    IF CanTransitionTo(payment, PROCESSING)
    THEN [payment |-> UpdateStatus(payment, PROCESSING, t),
          appended |-> <<ProcessingStarted(eid, paymentId, providerId,
                                           providerTransactionId, t)>>,
          result |-> "ok"]
    ELSE IF payment.status = PROCESSING
    THEN [payment |-> payment,
          appended |-> <<ProcessingStarted(eid, paymentId, providerId,
                                           providerTransactionId, t)>>,
          result |-> "ok"]
    ELSE Unchanged(payment, "ok")

(* case PROCESSING *)
DispatchProcessing(payment, paymentId, providerId, providerTransactionId, eid, t) ==
    IF CanTransitionTo(payment, PROCESSING)
    THEN [payment |-> UpdateStatus(payment, PROCESSING, t),
          appended |-> <<ProcessingStarted(eid, paymentId, providerId,
                                           providerTransactionId, t)>>,
          result |-> "ok"]
    ELSE Unchanged(payment, "ok")

(* Mutant: the completion is applied without asking canTransitionTo *)
DispatchCompletedMutNoGuard(payment, paymentId, providerId, providerTransactionId, eid, t) ==
    [payment |-> UpdateStatus(payment, COMPLETED, t),
     appended |-> <<PaymentCompleted(eid, paymentId, providerId, providerTransactionId, t)>>,
     result |-> "ok"]

(* Mutant: an illegal completion is ignored like a duplicate processing notification *)
DispatchCompletedMutSilent(payment, paymentId, providerId, providerTransactionId, eid, t) ==
    IF ~CanTransitionTo(payment, COMPLETED)
    THEN Unchanged(payment, "ok")
    ELSE [payment |-> UpdateStatus(payment, COMPLETED, t),
          appended |-> <<PaymentCompleted(eid, paymentId, providerId,
                                          providerTransactionId, t)>>,
          result |-> "ok"]

(* case COMPLETED *)
DispatchCompleted(payment, paymentId, providerId, providerTransactionId, eid, t) ==
    IF ~CanTransitionTo(payment, COMPLETED)
    THEN Unchanged(payment, "invalid_state")
    ELSE [payment |-> UpdateStatus(payment, COMPLETED, t),
          appended |-> <<PaymentCompleted(eid, paymentId, providerId,
                                          providerTransactionId, t)>>,
          result |-> "ok"]

(* Mutant: the webhook failure is recorded as not retryable, as createPayment does *)
DispatchFailedMutNotRetryable(payment, paymentId, error, eid, t) ==
    IF ~CanTransitionTo(payment, FAILED)
    THEN Unchanged(payment, "invalid_state")
    ELSE [payment |-> UpdateStatus(payment, FAILED, t),
          appended |-> <<PaymentFailed(eid, paymentId,
                                       OrElse(error.errorCode, "UNKNOWN_ERROR"),
                                       OrElse(error.errorMessage, "unknown error"),
                                       FALSE, t)>>,
          result |-> "ok"]

(* case FAILED *)
DispatchFailed(payment, paymentId, error, eid, t) ==
    IF ~CanTransitionTo(payment, FAILED)
    THEN Unchanged(payment, "invalid_state")
    ELSE [payment |-> UpdateStatus(payment, FAILED, t),
          appended |-> <<PaymentFailed(eid, paymentId,
                                       OrElse(error.errorCode, "UNKNOWN_ERROR"),
                                       OrElse(error.errorMessage, "unknown error"),
                                       TRUE, t)>>,
          result |-> "ok"]

(* Mutant: a provider's cancellation is applied without asking canTransitionTo *)
DispatchCancelledMutNoGuard(payment, paymentId, providerId, error, eid, t) ==
    [payment |-> UpdateStatus(payment, CANCELLED, t),
     appended |-> <<PaymentCancelled(eid, paymentId,
                                     OrElse(error.errorMessage, "cancelled by provider"),
                                     providerId, t)>>,
     result |-> "ok"]

(* case CANCELLED *)
DispatchCancelled(payment, paymentId, providerId, error, eid, t) ==
    IF ~CanTransitionTo(payment, CANCELLED)
    THEN Unchanged(payment, "invalid_state")
    ELSE [payment |-> UpdateStatus(payment, CANCELLED, t),
          appended |-> <<PaymentCancelled(eid, paymentId,
                                          OrElse(error.errorMessage, "cancelled by provider"),
                                          providerId, t)>>,
          result |-> "ok"]

(* switch (mappedStatus) *)
WebhookDispatch(payment, mapped, paymentId, providerId, providerTransactionId, error, eid, t) ==
    CASE mapped \in {INITIATED, AWAITING_PAYMENT} -> DispatchPending(payment, t)
      [] mapped = PROCESSING ->
           DispatchProcessing(payment, paymentId, providerId, providerTransactionId, eid, t)
      [] mapped = COMPLETED ->
           DispatchCompleted(payment, paymentId, providerId, providerTransactionId, eid, t)
      [] mapped = FAILED -> DispatchFailed(payment, paymentId, error, eid, t)
      [] mapped = CANCELLED -> DispatchCancelled(payment, paymentId, providerId, error, eid, t)
      [] OTHER -> Unchanged(payment, "validation")

(* processWebhook ends with an error before anything was written *)
RejectedWebhook(paymentId, result, mapped, providerId, status, providerTransactionId) ==
    /\ last' = WebhookOutcome(paymentId, result, mapped, providerId, status,
                              providerTransactionId)
    /\ UNCHANGED <<payments, events, inflight, retryCalls, issued, now>>

(* Mutant: the webhook's providerTransactionId always replaces the recorded one *)
ProcessWebhookMutAdoptAlways(paymentId, providerId, providerTransactionId, status, error) ==
    LET payment == payments[paymentId]
    IN  IF payment = NoPayment
        THEN RejectedWebhook(paymentId, "not_found", None, providerId, status,
                             providerTransactionId)
        ELSE IF payment.providerId # providerId
        THEN RejectedWebhook(paymentId, "validation", None, providerId, status,
                             providerTransactionId)
        ELSE IF GetProvider(providerId) = NotFound
        THEN RejectedWebhook(paymentId, "not_found", None, providerId, status,
                             providerTransactionId)
        ELSE IF MapStatus(GetProvider(providerId), status) = Throws
        THEN RejectedWebhook(paymentId, "validation", Throws, providerId, status,
                             providerTransactionId)
        ELSE LET mapped == MapStatus(GetProvider(providerId), status)
                 adopted == IF Truthy(providerTransactionId)
                            THEN SetProviderTransactionId(payment, providerTransactionId, now)
                            ELSE payment
                 effect == WebhookDispatch(adopted, mapped, paymentId, providerId,
                                           providerTransactionId, error, FreshEventId, now)
             IN  /\ payments' = [payments EXCEPT ![paymentId] = effect.payment]
                 /\ events' = SaveAll(events, effect.appended)
                 /\ last' = WebhookOutcome(paymentId, effect.result, mapped, providerId, status,
                                           providerTransactionId)
                 /\ UNCHANGED <<inflight, retryCalls, issued, now>>

(* Mutant: the webhook's providerId is not compared with the payment's *)
ProcessWebhookMutNoProviderCheck(paymentId, providerId, providerTransactionId, status, error) ==
    LET payment == payments[paymentId]
    IN  IF payment = NoPayment
        THEN RejectedWebhook(paymentId, "not_found", None, providerId, status,
                             providerTransactionId)
        ELSE IF GetProvider(providerId) = NotFound
        THEN RejectedWebhook(paymentId, "not_found", None, providerId, status,
                             providerTransactionId)
        ELSE IF MapStatus(GetProvider(providerId), status) = Throws
        THEN RejectedWebhook(paymentId, "validation", Throws, providerId, status,
                             providerTransactionId)
        ELSE LET mapped == MapStatus(GetProvider(providerId), status)
                 adopted == IF Truthy(providerTransactionId)
                               /\ ~Truthy(payment.providerTransactionId)
                            THEN SetProviderTransactionId(payment, providerTransactionId, now)
                            ELSE payment
                 effect == WebhookDispatch(adopted, mapped, paymentId, providerId,
                                           providerTransactionId, error, FreshEventId, now)
             IN  /\ payments' = [payments EXCEPT ![paymentId] = effect.payment]
                 /\ events' = SaveAll(events, effect.appended)
                 /\ last' = WebhookOutcome(paymentId, effect.result, mapped, providerId, status,
                                           providerTransactionId)
                 /\ UNCHANGED <<inflight, retryCalls, issued, now>>

(* PaymentService.processWebhook *)
ProcessWebhook(paymentId, providerId, providerTransactionId, status, error) ==
    LET payment == payments[paymentId]
    IN  IF payment = NoPayment
        THEN RejectedWebhook(paymentId, "not_found", None, providerId, status,
                             providerTransactionId)
        ELSE IF payment.providerId # providerId
        THEN RejectedWebhook(paymentId, "validation", None, providerId, status,
                             providerTransactionId)
        ELSE IF GetProvider(providerId) = NotFound
        THEN RejectedWebhook(paymentId, "not_found", None, providerId, status,
                             providerTransactionId)
        ELSE IF MapStatus(GetProvider(providerId), status) = Throws
        THEN RejectedWebhook(paymentId, "validation", Throws, providerId, status,
                             providerTransactionId)
        ELSE LET mapped == MapStatus(GetProvider(providerId), status)
                 adopted == IF Truthy(providerTransactionId)
                               /\ ~Truthy(payment.providerTransactionId)
                            THEN SetProviderTransactionId(payment, providerTransactionId, now)
                            ELSE payment
                 effect == WebhookDispatch(adopted, mapped, paymentId, providerId,
                                           providerTransactionId, error, FreshEventId, now)
             IN  /\ payments' = [payments EXCEPT ![paymentId] = effect.payment]
                 /\ events' = SaveAll(events, effect.appended)
                 /\ last' = WebhookOutcome(paymentId, effect.result, mapped, providerId, status,
                                           providerTransactionId)
                 /\ UNCHANGED <<inflight, retryCalls, issued, now>>

-----------------------------------------------------------------------------
(* PaymentService.retryPayment up to the await of provider.createPayment *)

(* Mutant: the cap is compared with > *)
RetryCapReachedMutOffByOne(payment) == payment.retryCount > MaxRetries

(* if (payment.retryCount >= 3) *)
RetryCapReached(payment) == payment.retryCount >= MaxRetries

(* The CreatePaymentParams retryPayment hands to provider.createPayment *)
RetryParams(payment) ==
    [paymentId |-> payment.id, amount |-> payment.amount, currency |-> payment.currency,
     description |-> payment.description, merchantId |-> payment.merchantId]

(* Mutant: the retry is submitted to the default provider *)
RetryPaymentCallMutDefaultProvider(paymentId, reason) ==
    LET payment == payments[paymentId]
    IN  IF payment = NoPayment
        THEN Rejected("retryPayment", paymentId, "not_found")
        ELSE IF payment.status # FAILED
        THEN Rejected("retryPayment", paymentId, "invalid_state")
        ELSE IF RetryCapReached(payment)
        THEN Rejected("retryPayment", paymentId, "validation")
        ELSE IF GetDefaultProvider = NotFound
        THEN Rejected("retryPayment", paymentId, "not_found")
        ELSE /\ HasIdleSlot
             /\ inflight' = [inflight EXCEPT ![IdleSlot] =
                    [op |-> "retryPayment", pid |-> paymentId,
                     reason |-> reason, cancelledBy |-> None,
                     provider |-> GetDefaultProvider,
                     params |-> RetryParams(payment)]]
             /\ retryCalls' = [retryCalls EXCEPT ![paymentId] = @ + 1]
             /\ last' = Outcome("retryPayment", paymentId, "awaiting", None)
             /\ UNCHANGED <<payments, events, issued, now>>

(* Mutant: the cap is checked before the status *)
RetryPaymentCallMutCapFirst(paymentId, reason) ==
    LET payment == payments[paymentId]
    IN  IF payment = NoPayment
        THEN Rejected("retryPayment", paymentId, "not_found")
        ELSE IF RetryCapReached(payment)
        THEN Rejected("retryPayment", paymentId, "validation")
        ELSE IF payment.status # FAILED
        THEN Rejected("retryPayment", paymentId, "invalid_state")
        ELSE IF GetProvider(payment.providerId) = NotFound
        THEN Rejected("retryPayment", paymentId, "not_found")
        ELSE /\ HasIdleSlot
             /\ inflight' = [inflight EXCEPT ![IdleSlot] =
                    [op |-> "retryPayment", pid |-> paymentId,
                     reason |-> reason, cancelledBy |-> None,
                     provider |-> GetProvider(payment.providerId),
                     params |-> RetryParams(payment)]]
             /\ retryCalls' = [retryCalls EXCEPT ![paymentId] = @ + 1]
             /\ last' = Outcome("retryPayment", paymentId, "awaiting", None)
             /\ UNCHANGED <<payments, events, issued, now>>

RetryPaymentCall(paymentId, reason) ==
    LET payment == payments[paymentId]
    IN  IF payment = NoPayment
        THEN Rejected("retryPayment", paymentId, "not_found")
        ELSE IF payment.status # FAILED
        THEN Rejected("retryPayment", paymentId, "invalid_state")
        ELSE IF RetryCapReached(payment)
        THEN Rejected("retryPayment", paymentId, "validation")
        ELSE IF GetProvider(payment.providerId) = NotFound
        THEN Rejected("retryPayment", paymentId, "not_found")
        ELSE /\ HasIdleSlot
             /\ inflight' = [inflight EXCEPT ![IdleSlot] =
                    [op |-> "retryPayment", pid |-> paymentId,
                     reason |-> reason, cancelledBy |-> None,
                     provider |-> GetProvider(payment.providerId),
                     params |-> RetryParams(payment)]]
             /\ retryCalls' = [retryCalls EXCEPT ![paymentId] = @ + 1]
             /\ last' = Outcome("retryPayment", paymentId, "awaiting", None)
             /\ UNCHANGED <<payments, events, issued, now>>

(* Mutant: the retry-requested event is built before the counter is incremented *)
RetryPaymentReturnOkMutStale(slot) ==
    /\ inflight[slot].op = "retryPayment"
    /\ LET paymentId == inflight[slot].pid
           providerPayment == ProviderCreatePayment(payments[paymentId].providerId,
                                                    issued[paymentId] + 1, now)
           payment == UpdateStatus(
                        SetProviderTransactionId(
                          SetPaymentUrl(
                            IncrementRetryCount(payments[paymentId], now),
                            providerPayment.paymentUrl, now),
                          providerPayment.providerTransactionId, now),
                        AWAITING_PAYMENT, now)
       IN  /\ payments' = [payments EXCEPT ![paymentId] = payment]
           /\ events' = Save(events,
                  RetryRequested(FreshEventId, paymentId, payments[paymentId].retryCount,
                                 inflight[slot].reason, now))
           /\ last' = Outcome("retryPayment", paymentId, "ok", None)
           /\ issued' = [issued EXCEPT ![paymentId] = @ + 1]
    /\ inflight' = [inflight EXCEPT ![slot] = Idle]
    /\ UNCHANGED <<retryCalls, now>>

(* Mutant: a successful retry does not store the new payment url *)
RetryPaymentReturnOkMutNoUrl(slot) ==
    /\ inflight[slot].op = "retryPayment"
    /\ LET paymentId == inflight[slot].pid
           providerPayment == ProviderCreatePayment(payments[paymentId].providerId,
                                                    issued[paymentId] + 1, now)
           payment == UpdateStatus(
                        SetProviderTransactionId(
                          IncrementRetryCount(payments[paymentId], now),
                          providerPayment.providerTransactionId, now),
                        AWAITING_PAYMENT, now)
       IN  /\ payments' = [payments EXCEPT ![paymentId] = payment]
           /\ events' = Save(events,
                  RetryRequested(FreshEventId, paymentId, payment.retryCount,
                                 inflight[slot].reason, now))
           /\ last' = Outcome("retryPayment", paymentId, "ok", None)
           /\ issued' = [issued EXCEPT ![paymentId] = @ + 1]
    /\ inflight' = [inflight EXCEPT ![slot] = Idle]
    /\ UNCHANGED <<retryCalls, now>>

(* retryPayment after the await: the provider returned a payment *)
RetryPaymentReturnOk(slot) ==
    /\ inflight[slot].op = "retryPayment"
    /\ LET paymentId == inflight[slot].pid
           providerPayment == ProviderCreatePayment(payments[paymentId].providerId,
                                                    issued[paymentId] + 1, now)
           payment == UpdateStatus(
                        SetProviderTransactionId(
                          SetPaymentUrl(
                            IncrementRetryCount(payments[paymentId], now),
                            providerPayment.paymentUrl, now),
                          providerPayment.providerTransactionId, now),
                        AWAITING_PAYMENT, now)
       IN  /\ payments' = [payments EXCEPT ![paymentId] = payment]
           /\ events' = Save(events,
                  RetryRequested(FreshEventId, paymentId, payment.retryCount,
                                 inflight[slot].reason, now))
           /\ last' = Outcome("retryPayment", paymentId, "ok", None)
           /\ issued' = [issued EXCEPT ![paymentId] = @ + 1]
    /\ inflight' = [inflight EXCEPT ![slot] = Idle]
    /\ UNCHANGED <<retryCalls, now>>

(* Retries of the payment whose provider call has failed so far *)
FailedRetries(paymentId) ==
    retryCalls[paymentId] - payments[paymentId].retryCount
        - Cardinality(InFlightOn(paymentId, "retryPayment"))

(* Mutant: a failed retry is recorded the way createPayment records a failure *)
RetryPaymentReturnErrorMutRecords(slot, error) ==
    /\ inflight[slot].op = "retryPayment"
    /\ CreatePaymentMayThrow(payments[inflight[slot].pid].providerId)
    /\ FailedRetries(inflight[slot].pid) < MaxFailedRetries
    /\ events' = Save(events,
           PaymentFailed(FreshEventId, inflight[slot].pid,
                         OrElse(error.code, "UNKNOWN_ERROR"), error.message, FALSE, now))
    /\ last' = Outcome("retryPayment", inflight[slot].pid, "external", None)
    /\ inflight' = [inflight EXCEPT ![slot] = Idle]
    /\ UNCHANGED <<payments, retryCalls, issued, now>>

(* retryPayment after the await: the provider call threw and the error propagates *)
RetryPaymentReturnError(slot, error) ==
    /\ inflight[slot].op = "retryPayment"
    /\ CreatePaymentMayThrow(payments[inflight[slot].pid].providerId)
    /\ FailedRetries(inflight[slot].pid) < MaxFailedRetries
    /\ last' = Outcome("retryPayment", inflight[slot].pid, "external", None)
    /\ inflight' = [inflight EXCEPT ![slot] = Idle]
    /\ UNCHANGED <<payments, events, retryCalls, issued, now>>

-----------------------------------------------------------------------------
(* PaymentService.cancelPayment: the local cancellation that ends the call; *)
(* remote tells what became of the best-effort provider.cancelPayment, which *)
(* the caller never learns                                                   *)

CancelLocally(paymentId, reason, cancelledBy, remote) ==
    /\ payments' = [payments EXCEPT ![paymentId] =
           UpdateStatus(payments[paymentId], CANCELLED, now)]
    /\ events' = Save(events,
           PaymentCancelled(FreshEventId, paymentId, reason, cancelledBy, now))
    /\ last' = Outcome("cancelPayment", paymentId, "ok", remote)

(* Mutant: the guard of cancelPayment refuses only the final statuses *)
CancelPaymentCallMutFinalOnly(paymentId, reason, cancelledBy) ==
    LET payment == payments[paymentId]
    IN  IF payment = NoPayment
        THEN Rejected("cancelPayment", paymentId, "not_found")
        ELSE IF IsFinal(payment)
        THEN Rejected("cancelPayment", paymentId, "invalid_state")
        ELSE IF Truthy(payment.providerTransactionId)
                /\ GetProvider(payment.providerId) # NotFound
        THEN /\ HasIdleSlot
             /\ inflight' = [inflight EXCEPT ![IdleSlot] =
                    [op |-> "cancelPayment", pid |-> paymentId,
                     reason |-> reason, cancelledBy |-> cancelledBy]]
             /\ last' = Outcome("cancelPayment", paymentId, "awaiting", None)
             /\ UNCHANGED <<payments, events, retryCalls, issued, now>>
        ELSE /\ CancelLocally(paymentId, reason, cancelledBy,
                              IF Truthy(payment.providerTransactionId)
                              THEN "remote_unresolved" ELSE None)
             /\ UNCHANGED <<inflight, retryCalls, issued, now>>

(* PaymentService.cancelPayment up to the await of provider.cancelPayment; *)
(* without a providerTransactionId it runs to its end                      *)
CancelPaymentCall(paymentId, reason, cancelledBy) ==
    LET payment == payments[paymentId]
    IN  IF payment = NoPayment
        THEN Rejected("cancelPayment", paymentId, "not_found")
        ELSE IF ~CanTransitionTo(payment, CANCELLED)
        THEN Rejected("cancelPayment", paymentId, "invalid_state")
        ELSE IF Truthy(payment.providerTransactionId)
                /\ GetProvider(payment.providerId) # NotFound
        THEN /\ HasIdleSlot
             /\ inflight' = [inflight EXCEPT ![IdleSlot] =
                    [op |-> "cancelPayment", pid |-> paymentId,
                     reason |-> reason, cancelledBy |-> cancelledBy]]
             /\ last' = Outcome("cancelPayment", paymentId, "awaiting", None)
             /\ UNCHANGED <<payments, events, retryCalls, issued, now>>
        ELSE /\ CancelLocally(paymentId, reason, cancelledBy,
                              IF Truthy(payment.providerTransactionId)
                              THEN "remote_unresolved" ELSE None)
             /\ UNCHANGED <<inflight, retryCalls, issued, now>>

(* Mutant: a failed remote cancel is surfaced and the payment stays as it was *)
CancelPaymentReturnMutSurface(slot, remoteOk) ==
    /\ inflight[slot].op = "cancelPayment"
    /\ IF remoteOk
       THEN CancelLocally(inflight[slot].pid, inflight[slot].reason,
                          inflight[slot].cancelledBy, "remote_ok")
       ELSE /\ last' = Outcome("cancelPayment", inflight[slot].pid, "external", "remote_failed")
            /\ UNCHANGED <<payments, events>>
    /\ inflight' = [inflight EXCEPT ![slot] = Idle]
    /\ UNCHANGED <<retryCalls, issued, now>>

(* cancelPayment after the await: the remote cancel succeeded (remoteOk) or *)
(* threw and the empty catch swallowed it                                   *)
CancelPaymentReturn(slot, remoteOk) ==
    /\ inflight[slot].op = "cancelPayment"
    /\ CancelLocally(inflight[slot].pid, inflight[slot].reason, inflight[slot].cancelledBy,
                     IF remoteOk THEN "remote_ok" ELSE "remote_failed")
    /\ inflight' = [inflight EXCEPT ![slot] = Idle]
    /\ UNCHANGED <<retryCalls, issued, now>>

-----------------------------------------------------------------------------
(* The requests the service receives, with their inputs *)

CreatePaymentRequest ==
    \E amount \in Amounts, currency \in Currencies, merchantId \in MerchantIds,
       description \in Descriptions, providerId \in ProviderIdInputs :
        CreatePaymentCall(amount, currency, merchantId, description, providerId)

(* A create request that names the T-Bank provider *)
CreatePaymentTBankRequest ==
    \E amount \in Amounts, currency \in Currencies, merchantId \in MerchantIds,
       description \in Descriptions :
        CreatePaymentCall(amount, currency, merchantId, description, "tbank-sbp")

CreatePaymentOk == \E slot \in Slots : CreatePaymentReturnOk(slot)

CreatePaymentError ==
    \E slot \in Slots, error \in ProviderErrors : CreatePaymentReturnError(slot, error)

RedirectRequest == \E paymentId \in RequestIds : RecordCustomerRedirect(paymentId)

WebhookRequest ==
    \E paymentId \in RequestIds, providerId \in WebhookProviderIds,
       providerTransactionId \in TxIds, status \in WebhookStatuses, error \in WebhookErrors :
        ProcessWebhook(paymentId, providerId, providerTransactionId, status, error)

(* The notifications T-Bank sends about its own payments *)
TBankStatuses == {"NEW", "AUTHORIZED", "CONFIRMED", "REJECTED", "cancelled"}

WebhookFromTBankRequest ==
    \E paymentId \in RequestIds, providerTransactionId \in TxIds,
       status \in TBankStatuses, error \in WebhookErrors :
        ProcessWebhook(paymentId, "tbank-sbp", providerTransactionId, status, error)

RetryRequest ==
    \E paymentId \in RequestIds, reason \in Reasons : RetryPaymentCall(paymentId, reason)

RetryOk == \E slot \in Slots : RetryPaymentReturnOk(slot)

RetryError ==
    \E slot \in Slots, error \in ProviderErrors : RetryPaymentReturnError(slot, error)

CancelRequest ==
    \E paymentId \in RequestIds, reason \in Reasons, cancelledBy \in CancelledBys :
        CancelPaymentCall(paymentId, reason, cancelledBy)

CancelReturn ==
    \E slot \in Slots, remoteOk \in BOOLEAN : CancelPaymentReturn(slot, remoteOk)

Init ==
    /\ payments = [id \in RequestIds |-> NoPayment]
    /\ events = <<>>
    /\ inflight = [s \in Slots |-> Idle]
    /\ last = Outcome("init", None, None, None)
    /\ retryCalls = [id \in RequestIds |-> 0]
    /\ issued = [id \in RequestIds |-> 0]
    /\ now = 0
    /\ overlaps = 0
    /\ providers = RegisterProvider(RegisterProvider(NoProviders, IndexRegistrations[1].provider),
                                    IndexRegistrations[2].provider)
    /\ defaultProvider = RegisterDefault(RegisterDefault(NoProvider, IndexRegistrations[1].provider,
                                                         IndexRegistrations[1].isDefault),
                                         IndexRegistrations[2].provider,
                                         IndexRegistrations[2].isDefault)
    /\ registrations = IndexRegistrations

(* One operation at a time: a request is taken up only when no operation is suspended *)
Serial(Request) == NoneInFlight /\ Request /\ UNCHANGED <<overlaps, registry>>

(* The code after an await runs when the provider call settles *)
Resume(Return) == Return /\ UNCHANGED <<overlaps, registry>>

Next ==
    \/ Serial(CreatePaymentRequest)
    \/ Resume(CreatePaymentOk)
    \/ Resume(CreatePaymentError)
    \/ Serial(RedirectRequest)
    \/ Serial(WebhookRequest)
    \/ Serial(RetryRequest)
    \/ Resume(RetryOk)
    \/ Resume(RetryError)
    \/ Serial(CancelRequest)
    \/ Resume(CancelReturn)

Spec == Init /\ [][Next]_vars

(* A request is taken up whenever it arrives, also while other operations are *)
(* suspended in their provider calls                                          *)
Concurrent(Request) ==
    /\ NoneInFlight \/ overlaps < MaxOverlaps
    /\ Request
    /\ overlaps' = IF NoneInFlight THEN overlaps ELSE overlaps + 1
    /\ UNCHANGED registry

NextConc ==
    \/ Concurrent(CreatePaymentTBankRequest)
    \/ Resume(CreatePaymentOk)
    \/ Resume(CreatePaymentError)
    \/ Concurrent(RedirectRequest)
    \/ Concurrent(WebhookFromTBankRequest)
    \/ Concurrent(RetryRequest)
    \/ Resume(RetryOk)
    \/ Resume(RetryError)
    \/ Concurrent(CancelRequest)
    \/ Resume(CancelReturn)

SpecConc == Init /\ [][NextConc]_vars

(* The life of a payment as its provider drives it: a notification arrives on the *)
(* provider's schedule and is handled whenever it comes, also while createPayment *)
(* or cancelPayment is suspended in its provider call; the other requests wait    *)
(* for the operations before them                                                 *)
Anytime(Request) == Request /\ UNCHANGED <<overlaps, registry>>

NextWebhook ==
    \/ Serial(CreatePaymentRequest)
    \/ Resume(CreatePaymentOk)
    \/ Resume(CreatePaymentError)
    \/ Serial(RedirectRequest)
    \/ Anytime(WebhookRequest)
    \/ Serial(CancelRequest)
    \/ Resume(CancelReturn)

SpecWebhook == Init /\ [][NextWebhook]_vars

(* The payment is in the store from the moment createPayment saves it, before  *)
(* the provider has answered: a caller's retry, cancel or redirect request for *)
(* it may already arrive while createPayment is suspended.  Otherwise as Spec. *)
DuringCreate(Request) ==
    /\ \E s \in Slots : inflight[s] # Idle /\ inflight[s].op = "createPayment"
    /\ Request
    /\ UNCHANGED <<overlaps, registry>>

NextCreating ==
    \/ Serial(CreatePaymentRequest)
    \/ Resume(CreatePaymentOk)
    \/ Resume(CreatePaymentError)
    \/ Serial(RedirectRequest)
    \/ DuringCreate(RedirectRequest)
    \/ Serial(WebhookRequest)
    \/ Serial(RetryRequest)
    \/ DuringCreate(RetryRequest)
    \/ Resume(RetryOk)
    \/ Resume(RetryError)
    \/ Serial(CancelRequest)
    \/ DuringCreate(CancelRequest)
    \/ Resume(CancelReturn)

SpecCreating == Init /\ [][NextCreating]_vars

-----------------------------------------------------------------------------
(* The Payment entity on its own: any Payment the constructor can build,   *)
(* and its methods called directly, as tests/entities/payment.test.ts does *)

EntityPayments ==
    {[PaymentCreate(id, 1000, "rub", "m1", "d1", "fake", 0)
        EXCEPT !.status = status, !.retryCount = retryCount,
               !.providerTransactionId = tx, !.paymentUrl = url] :
        id \in PaymentIds, status \in PaymentStatus, retryCount \in 0..MaxRetries,
        tx \in {None, "tx1"}, url \in {None, "pay/tx1"}}

InitEntity ==
    /\ payments \in [PaymentIds -> EntityPayments]
    /\ events = <<>>
    /\ inflight = [s \in Slots |-> Idle]
    /\ last = Outcome("init", None, None, None)
    /\ retryCalls = [id \in RequestIds |-> 0]
    /\ issued = [id \in RequestIds |-> 0]
    /\ now = 0
    /\ overlaps = 0
    /\ providers = RegisterProvider(RegisterProvider(NoProviders, IndexRegistrations[1].provider),
                                    IndexRegistrations[2].provider)
    /\ defaultProvider = RegisterDefault(RegisterDefault(NoProvider, IndexRegistrations[1].provider,
                                                         IndexRegistrations[1].isDefault),
                                         IndexRegistrations[2].provider,
                                         IndexRegistrations[2].isDefault)
    /\ registrations = IndexRegistrations

(* payment.canTransitionTo(newStatus) *)
CanTransitionToCall(paymentId, newStatus) ==
    /\ last' = Outcome("canTransitionTo", paymentId,
                       CanTransitionTo(payments[paymentId], newStatus), newStatus)
    /\ UNCHANGED <<payments, events, inflight, retryCalls, issued, now, overlaps, registry>>

(* payment.isFinal() *)
IsFinalCall(paymentId) ==
    /\ last' = Outcome("isFinal", paymentId, IsFinal(payments[paymentId]), None)
    /\ UNCHANGED <<payments, events, inflight, retryCalls, issued, now, overlaps, registry>>

(* payment.updateStatus(newStatus) *)
UpdateStatusCall(paymentId, newStatus) ==
    /\ payments' = [payments EXCEPT ![paymentId] = UpdateStatus(@, newStatus, now)]
    /\ last' = Outcome("updateStatus", paymentId, None, newStatus)
    /\ UNCHANGED <<events, inflight, retryCalls, issued, now, overlaps, registry>>

(* payment.setPaymentUrl(url) *)
SetPaymentUrlCall(paymentId, url) ==
    /\ payments' = [payments EXCEPT ![paymentId] = SetPaymentUrl(@, url, now)]
    /\ last' = Outcome("setPaymentUrl", paymentId, None, None)
    /\ UNCHANGED <<events, inflight, retryCalls, issued, now, overlaps, registry>>

(* payment.setProviderTransactionId(id) *)
SetProviderTransactionIdCall(paymentId, id) ==
    /\ payments' = [payments EXCEPT ![paymentId] = SetProviderTransactionId(@, id, now)]
    /\ last' = Outcome("setProviderTransactionId", paymentId, None, None)
    /\ UNCHANGED <<events, inflight, retryCalls, issued, now, overlaps, registry>>

(* payment.incrementRetryCount() *)
IncrementRetryCountCall(paymentId) ==
    /\ payments[paymentId].retryCount < MaxRetries + 1
    /\ payments' = [payments EXCEPT ![paymentId] = IncrementRetryCount(@, now)]
    /\ last' = Outcome("incrementRetryCount", paymentId, None, None)
    /\ UNCHANGED <<events, inflight, retryCalls, issued, now, overlaps, registry>>

(* Time passes between two readings of the clock *)
Tick ==
    /\ now < MaxClock
    /\ now' = now + 1
    /\ last' = Outcome("tick", None, None, None)
    /\ UNCHANGED <<payments, events, inflight, retryCalls, issued, overlaps, registry>>

NextEntity ==
    \/ \E paymentId \in PaymentIds, newStatus \in PaymentStatus :
          CanTransitionToCall(paymentId, newStatus)
    \/ \E paymentId \in PaymentIds : IsFinalCall(paymentId)
    \/ \E paymentId \in PaymentIds, newStatus \in PaymentStatus :
          UpdateStatusCall(paymentId, newStatus)
    \/ \E paymentId \in PaymentIds, url \in {"pay/tx1", "pay/tx2"} :
          SetPaymentUrlCall(paymentId, url)
    \/ \E paymentId \in PaymentIds, id \in {"tx1", "tx2"} :
          SetProviderTransactionIdCall(paymentId, id)
    \/ \E paymentId \in PaymentIds : IncrementRetryCountCall(paymentId)
    \/ Tick

SpecEntity == InitEntity /\ [][NextEntity]_vars

-----------------------------------------------------------------------------
(* The Store on its own, holding events as eventStore does: its public      *)
(* methods called directly, as tests/infrastructure/store.test.ts does      *)

StoreItemIds == {"e1", "e2", "e3"}

StoreItems ==
    {NewEvent(id, "p1", type, [reason |-> "r1"], 0) :
        id \in StoreItemIds, type \in {PAYMENT_INITIATED, PAYMENT_FAILED}}

StoreOutcome(op, id, result) == [Outcome(op, None, result, None) EXCEPT !.input = id]

(* store.save(item) *)
StoreSaveCall(item) ==
    /\ Has(events, item.id) \/ Size(events) < MaxItems
    /\ events' = Save(events, item)
    /\ last' = StoreOutcome("save", item.id, None)
    /\ UNCHANGED <<payments, inflight, retryCalls, issued, now, overlaps, registry>>

(* store.get(id) *)
StoreGetCall(id) ==
    /\ last' = StoreOutcome("get", id, Get(events, id))
    /\ UNCHANGED <<payments, events, inflight, retryCalls, issued, now, overlaps, registry>>

(* store.find(e => e.type === type) *)
StoreFindCall(type) ==
    /\ last' = StoreOutcome("find", type, FindByType(events, type))
    /\ UNCHANGED <<payments, events, inflight, retryCalls, issued, now, overlaps, registry>>

(* store.has(id) *)
StoreHasCall(id) ==
    /\ last' = StoreOutcome("has", id, Has(events, id))
    /\ UNCHANGED <<payments, events, inflight, retryCalls, issued, now, overlaps, registry>>

(* store.delete(id) *)
StoreDeleteCall(id) ==
    /\ events' = Delete(events, id)
    /\ last' = StoreOutcome("delete", id, Has(events, id))
    /\ UNCHANGED <<payments, inflight, retryCalls, issued, now, overlaps, registry>>

(* store.clear() *)
StoreClearCall ==
    /\ events' = Clear(events)
    /\ last' = StoreOutcome("clear", None, None)
    /\ UNCHANGED <<payments, inflight, retryCalls, issued, now, overlaps, registry>>

(* store.size *)
StoreSizeCall ==
    /\ last' = StoreOutcome("size", None, Size(events))
    /\ UNCHANGED <<payments, events, inflight, retryCalls, issued, now, overlaps, registry>>

NextStore ==
    \/ \E item \in StoreItems : StoreSaveCall(item)
    \/ \E id \in StoreItemIds : StoreGetCall(id)
    \/ \E type \in {PAYMENT_INITIATED, PAYMENT_FAILED} : StoreFindCall(type)
    \/ \E id \in StoreItemIds : StoreHasCall(id)
    \/ \E id \in StoreItemIds : StoreDeleteCall(id)
    \/ StoreClearCall
    \/ StoreSizeCall

(* new Store(PaymentEvent): no items *)
SpecStore == Init /\ [][NextStore]_vars

-----------------------------------------------------------------------------
(* The PaymentProviderManager on its own: register, getProvider,            *)
(* getDefaultProvider and hasProvider called in any order                   *)

InitRegistry ==
    /\ payments = [id \in RequestIds |-> NoPayment]
    /\ events = <<>>
    /\ inflight = [s \in Slots |-> Idle]
    /\ last = Outcome("init", None, None, None)
    /\ retryCalls = [id \in RequestIds |-> 0]
    /\ issued = [id \in RequestIds |-> 0]
    /\ now = 0
    /\ overlaps = 0
    /\ providers = NoProviders
    /\ defaultProvider = NoProvider
    /\ registrations = <<>>

RegistryOutcome(op, providerId, result, provider) ==
    [Outcome(op, None, result, provider) EXCEPT !.input.providerId = providerId]

(* providerManager.register(provider, isDefault) *)
RegisterCall(provider, isDefault) ==
    /\ Len(registrations) < MaxRegistrations
    /\ providers' = RegisterProvider(providers, provider)
    /\ defaultProvider' = RegisterDefault(defaultProvider, provider, isDefault)
    /\ registrations' = Append(registrations, [provider |-> provider, isDefault |-> isDefault])
    /\ last' = RegistryOutcome("register", provider.id, isDefault, provider)
    /\ UNCHANGED <<payments, events, inflight, retryCalls, issued, now, overlaps>>

(* providerManager.getProvider(providerId) *)
GetProviderCall(providerId) ==
    /\ last' = RegistryOutcome("getProvider", providerId,
                               IF GetProvider(providerId) = NotFound
                               THEN "not_found" ELSE "ok",
                               LookupProvider(providerId))
    /\ UNCHANGED <<payments, events, inflight, retryCalls, issued, now, overlaps, registry>>

(* providerManager.getDefaultProvider() *)
GetDefaultProviderCall ==
    /\ last' = RegistryOutcome("getDefaultProvider", None,
                               IF GetDefaultProvider = NotFound THEN "not_found" ELSE "ok",
                               defaultProvider)
    /\ UNCHANGED <<payments, events, inflight, retryCalls, issued, now, overlaps, registry>>

(* providerManager.hasProvider(providerId) *)
HasProviderCall(providerId) ==
    /\ last' = RegistryOutcome("hasProvider", providerId,
                               LookupProvider(providerId) # NoProvider, NoProvider)
    /\ UNCHANGED <<payments, events, inflight, retryCalls, issued, now, overlaps, registry>>

NextRegistry ==
    \/ \E provider \in ProviderObjects, isDefault \in BOOLEAN : RegisterCall(provider, isDefault)
    \/ \E providerId \in RegisteredProviders \cup {"other"} : GetProviderCall(providerId)
    \/ GetDefaultProviderCall
    \/ \E providerId \in RegisteredProviders \cup {"other"} : HasProviderCall(providerId)

SpecRegistry == InitRegistry /\ [][NextRegistry]_vars

-----------------------------------------------------------------------------
(* toJSON and fromJSON of Payment and PaymentEvent.  A Date is the number   *)
(* of milliseconds it holds; its ISO string spells out the whole seconds    *)
(* and the three digits of milliseconds.                                    *)

(* Mutant: the ISO string is cut at the seconds *)
ToISOStringMutSeconds(date) == [seconds |-> date \div 1000, millis |-> 0]

(* Date.prototype.toISOString *)
ToISOString(date) == [seconds |-> date \div 1000, millis |-> date % 1000]

(* new Date(isoString) *)
NewDate(iso) == iso.seconds * 1000 + iso.millis

(* Payment.prototype.toJSON *)
PaymentToJSON(p) ==
    [id |-> p.id, status |-> p.status, amount |-> p.amount, currency |-> p.currency,
     merchantId |-> p.merchantId, description |-> p.description,
     providerId |-> p.providerId, paymentUrl |-> p.paymentUrl,
     providerTransactionId |-> p.providerTransactionId, retryCount |-> p.retryCount,
     createdAt |-> ToISOString(p.createdAt), updatedAt |-> ToISOString(p.updatedAt)]

(* Payment.fromJSON; toJSON always gives a retryCount, so the constructor's *)
(* default does not apply                                                 *)
PaymentFromJSON(json) ==
    [id |-> json.id, status |-> json.status, amount |-> json.amount,
     currency |-> json.currency, merchantId |-> json.merchantId,
     description |-> json.description, providerId |-> json.providerId,
     paymentUrl |-> json.paymentUrl,
     providerTransactionId |-> json.providerTransactionId,
     retryCount |-> json.retryCount,
     createdAt |-> NewDate(json.createdAt), updatedAt |-> NewDate(json.updatedAt)]

(* PaymentEvent.prototype.toJSON: data is handed over as it is *)
EventToJSON(e) ==
    [id |-> e.id, paymentId |-> e.paymentId, type |-> e.type, data |-> e.data,
     timestamp |-> ToISOString(e.timestamp)]

(* PaymentEvent.fromJSON *)
EventFromJSON(json) ==
    NewEvent(json.id, json.paymentId, json.type, json.data, NewDate(json.timestamp))

(* Readings of the clock, in milliseconds *)
Dates == {1999 * t : t \in 0..MaxClock}

(* Payments as the service leaves them in the store *)
StoredPayments ==
    {[PaymentCreate(id, 1000, "rub", "m1", "d1", provider, dates[1])
        EXCEPT !.status = status, !.retryCount = retryCount,
               !.providerTransactionId = tx, !.paymentUrl = url,
               !.updatedAt = dates[2]] :
        id \in PaymentIds, provider \in RegisteredProviders, status \in PaymentStatus,
        retryCount \in {0, MaxRetries}, tx \in {None, "tx1"}, url \in {None, "pay/tx1"},
        dates \in {d \in Dates \X Dates : d[1] <= d[2]}}

(* One event of each static constructor, with the data the service gives it *)
StoredEvents ==
    UNION {{PaymentInitiated(1, "p1", 1000, "rub", "m1", "d1", t),
            PaymentLinkGenerated(1, "p1", "pay/tx1", t + 15, t),
            CustomerRedirected(1, "p1", t),
            ProcessingStarted(1, "p1", "fake", "tx1", t),
            PaymentCompleted(1, "p1", "fake", "tx1", t),
            PaymentFailed(1, "p1", "UNKNOWN_ERROR", "declined", TRUE, t),
            RetryRequested(1, "p1", 1, "r1", t),
            PaymentCancelled(1, "p1", "r1", "customer", t)} : t \in Dates}

InitJSON ==
    /\ payments \in [PaymentIds -> StoredPayments]
    /\ events \in {<<e>> : e \in StoredEvents}
    /\ inflight = [s \in Slots |-> Idle]
    /\ last = Outcome("init", None, None, None)
    /\ retryCalls = [id \in RequestIds |-> 0]
    /\ issued = [id \in RequestIds |-> 0]
    /\ now = 0
    /\ overlaps = 0
    /\ providers = NoProviders
    /\ defaultProvider = NoProvider
    /\ registrations = <<>>

(* What toJSON or fromJSON was called on and what it returned *)
JSONOutcome(op, subject, value) == [Outcome(op, None, None, value) EXCEPT !.input = subject]

(* payment.toJSON() *)
PaymentToJSONCall(paymentId) ==
    /\ last' = JSONOutcome("Payment.toJSON", paymentId, PaymentToJSON(payments[paymentId]))
    /\ UNCHANGED <<payments, events, inflight, retryCalls, issued, now, overlaps, registry>>

(* Payment.fromJSON(json) on what toJSON has just returned *)
PaymentFromJSONCall ==
    /\ last.op = "Payment.toJSON"
    /\ last' = JSONOutcome("Payment.fromJSON", last.input, PaymentFromJSON(last.mapped))
    /\ UNCHANGED <<payments, events, inflight, retryCalls, issued, now, overlaps, registry>>

(* event.toJSON() *)
EventToJSONCall(i) ==
    /\ last' = JSONOutcome("PaymentEvent.toJSON", i, EventToJSON(events[i]))
    /\ UNCHANGED <<payments, events, inflight, retryCalls, issued, now, overlaps, registry>>

(* PaymentEvent.fromJSON(json) on what toJSON has just returned *)
EventFromJSONCall ==
    /\ last.op = "PaymentEvent.toJSON"
    /\ last' = JSONOutcome("PaymentEvent.fromJSON", last.input, EventFromJSON(last.mapped))
    /\ UNCHANGED <<payments, events, inflight, retryCalls, issued, now, overlaps, registry>>

NextJSON ==
    \/ \E paymentId \in PaymentIds : PaymentToJSONCall(paymentId)
    \/ PaymentFromJSONCall
    \/ \E i \in DOMAIN events : EventToJSONCall(i)
    \/ EventFromJSONCall

SpecJSON == InitJSON /\ [][NextJSON]_vars

-----------------------------------------------------------------------------
(* Properties *)

(* The legal transition table, pair by pair *)
LegalEdges ==
    {<<INITIATED, AWAITING_PAYMENT>>, <<INITIATED, FAILED>>,
     <<AWAITING_PAYMENT, PROCESSING>>, <<AWAITING_PAYMENT, CANCELLED>>,
     <<AWAITING_PAYMENT, FAILED>>,
     <<PROCESSING, COMPLETED>>, <<PROCESSING, FAILED>>,
     <<FAILED, AWAITING_PAYMENT>>}

(* The step appends exactly one event, of this type and for this payment *)
AppendsOne(type, paymentId) ==
    /\ Len(events') = Len(events) + 1
    /\ SubSeq(events', 1, Len(events)) = events
    /\ events'[Len(events')].type = type
    /\ events'[Len(events')].paymentId = paymentId

(* C1: for every pair (current, target) of statuses canTransitionTo(target) *)
(* answers true exactly when the pair is an edge of the table, false for    *)
(* every other pair (self-loops included), and it changes no field of the   *)
(* payment.                                                                 *)
C1_CanTransitionToTable ==
    [][last'.op = "canTransitionTo" =>
          /\ last'.result = (<<payments[last'.pid].status, last'.mapped>> \in LegalEdges)
          /\ payments' = payments]_vars

C1_Witness ==
    /\ last.op = "canTransitionTo"
    /\ last.result = TRUE
    /\ payments[last.pid].status = FAILED
    /\ last.mapped = AWAITING_PAYMENT

(* C2: with the operations run one at a time, every change of a payment's *)
(* status goes along an edge that canTransitionTo allows.                 *)
C2_StatusChangesAlongEdges ==
    [][\A id \in PaymentIds :
          (payments[id] # NoPayment /\ payments'[id].status # payments[id].status)
              => CanTransitionTo(payments[id], payments'[id].status)]_vars

C2_Witness ==
    /\ last.op = "processWebhook"
    /\ last.result = "ok"
    /\ last.mapped = COMPLETED
    /\ payments[last.pid].status = COMPLETED

(* C3: completed and cancelled are exactly the statuses isFinal() reports,  *)
(* failed is not among them, and once a payment is completed or cancelled   *)
(* no operation run afterwards changes its status.                          *)
C3_TerminalAbsorbing ==
    [][\A id \in PaymentIds :
          payments[id] # NoPayment =>
              /\ IsFinal(payments[id]) = (payments[id].status \in {COMPLETED, CANCELLED})
              /\ payments[id].status \in {COMPLETED, CANCELLED}
                    => payments'[id].status = payments[id].status]_vars

C3_Witness ==
    /\ last.op = "retryPayment"
    /\ last.result = "invalid_state"
    /\ payments[last.pid].status = CANCELLED

(* C4: while createPayment, retryPayment or cancelPayment is suspended       *)
(* between its guard and its mutation, no step of another operation on the  *)
(* same payment id takes place: the next step on that id is its own return. *)
C4_NoInterleaving ==
    [][\A s \in Slots :
          (/\ inflight[s] # Idle
           /\ last'.op \in {"processWebhook", "retryPayment", "cancelPayment"}
           /\ last'.pid = inflight[s].pid) => inflight'[s] = Idle]_vars

(* C5: a webhook mapped to processing returns without error in every status; *)
(* in awaiting_payment it moves the payment to processing and appends       *)
(* exactly one processing-started event, in any other status it changes     *)
(* neither the status nor the event log.                                    *)
C5_ProcessingWebhook ==
    [][(last'.op = "processWebhook" /\ last'.mapped = PROCESSING) =>
          /\ last'.result = "ok"
          /\ IF payments[last'.pid].status = AWAITING_PAYMENT
             THEN /\ payments'[last'.pid].status = PROCESSING
                  /\ AppendsOne(PAYMENT_PROCESSING_STARTED, last'.pid)
             ELSE /\ payments'[last'.pid].status = payments[last'.pid].status
                  /\ events' = events]_vars

C5_Witness ==
    /\ last.op = "processWebhook"
    /\ last.mapped = PROCESSING
    /\ last.result = "ok"
    /\ payments[last.pid].status = COMPLETED
    /\ CountType(events, last.pid, PAYMENT_PROCESSING_STARTED) = 1

(* C6: a webhook mapped to completed fails with invalid-state and leaves the *)
(* status and the event log unchanged unless the payment is in processing;   *)
(* in processing it sets completed and appends exactly one payment-completed *)
(* event.                                                                    *)
C6_CompletedWebhook ==
    [][(last'.op = "processWebhook" /\ last'.mapped = COMPLETED) =>
          IF payments[last'.pid].status = PROCESSING
          THEN /\ last'.result = "ok"
               /\ payments'[last'.pid].status = COMPLETED
               /\ AppendsOne(PAYMENT_COMPLETED, last'.pid)
          ELSE /\ last'.result = "invalid_state"
               /\ payments'[last'.pid].status = payments[last'.pid].status
               /\ events' = events]_vars

C6_Witness ==
    /\ last.op = "processWebhook"
    /\ last.mapped = COMPLETED
    /\ last.result = "invalid_state"
    /\ payments[last.pid].status = INITIATED

(* C7: a webhook mapped to failed or cancelled fails with invalid-state and  *)
(* changes neither status nor event log when the table has no edge from the  *)
(* current status to the mapped one; otherwise it sets the mapped status and *)
(* appends exactly one event: payment-failed with isRetryable = true, or     *)
(* payment-cancelled with the provider id as cancelledBy.                    *)
C7_FailedCancelledWebhook ==
    [][(last'.op = "processWebhook" /\ last'.mapped \in {FAILED, CANCELLED}) =>
          IF <<payments[last'.pid].status, last'.mapped>> \in LegalEdges
          THEN /\ last'.result = "ok"
               /\ payments'[last'.pid].status = last'.mapped
               /\ IF last'.mapped = FAILED
                  THEN /\ AppendsOne(PAYMENT_FAILED, last'.pid)
                       /\ events'[Len(events')].data.isRetryable = TRUE
                  ELSE /\ AppendsOne(PAYMENT_CANCELLED, last'.pid)
                       /\ events'[Len(events')].data.cancelledBy
                              = payments[last'.pid].providerId
          ELSE /\ last'.result = "invalid_state"
               /\ payments'[last'.pid].status = payments[last'.pid].status
               /\ events' = events]_vars

C7_Witness ==
    /\ last.op = "processWebhook"
    /\ last.mapped = FAILED
    /\ last.result = "ok"
    /\ payments[last.pid].status = FAILED
    /\ events[Len(events)].type = PAYMENT_FAILED
    /\ events[Len(events)].data.isRetryable = TRUE

(* C8: with the operations run one at a time retryCount never exceeds 3, and *)
(* retryPayment on a failed payment with retryCount >= 3 fails with a        *)
(* validation error without calling the provider and without changing the   *)
(* payment or the event log.                                                *)
C8_RetryCap ==
    [][/\ \A id \in PaymentIds :
             payments'[id] # NoPayment => payments'[id].retryCount <= 3
       /\ (/\ last'.op = "retryPayment"
           /\ payments[last'.pid] # NoPayment
           /\ payments[last'.pid].status = FAILED
           /\ payments[last'.pid].retryCount >= 3)
              => /\ last'.result = "validation"
                 /\ UNCHANGED <<payments, events, retryCalls, inflight>>]_vars

C8_Witness ==
    /\ last.op = "retryPayment"
    /\ last.result = "validation"
    /\ payments[last.pid].status = FAILED
    /\ payments[last.pid].retryCount = 3

(* C9: retryPayment reaches the provider at most 3 times for one payment, *)
(* the attempts whose provider call fails included.                       *)
C9_RetryProviderCallsBounded == \A id \in PaymentIds : retryCalls[id] <= 3

(* C10: retryCount is 0 for a freshly created payment, a retryPayment that   *)
(* succeeds increases it by exactly 1 and appends a retry-requested event    *)
(* whose attemptNumber is the new retryCount, and no other step changes it.  *)
C10_RetryCount ==
    [][\A id \in PaymentIds :
          /\ (payments[id] = NoPayment /\ payments'[id] # NoPayment)
                => payments'[id].retryCount = 0
          /\ payments[id] # NoPayment =>
                IF last'.op = "retryPayment" /\ last'.result = "ok" /\ last'.pid = id
                THEN /\ payments'[id].retryCount = payments[id].retryCount + 1
                     /\ AppendsOne(PAYMENT_RETRY_REQUESTED, id)
                     /\ events'[Len(events')].data.attemptNumber = payments'[id].retryCount
                ELSE payments'[id].retryCount = payments[id].retryCount]_vars

C10_Witness ==
    /\ last.op = "retryPayment"
    /\ last.result = "ok"
    /\ payments[last.pid].retryCount = 3
    /\ events[Len(events)].data.attemptNumber = 3

(* The step is the return of a cancelPayment call for the payment that was *)
(* suspended with this reason and cancelledBy                              *)
ReturnsCancelOf(paymentId, reason, cancelledBy) ==
    \E s \in Slots :
        /\ inflight[s] # Idle
        /\ inflight[s].op = "cancelPayment"
        /\ inflight[s].pid = paymentId
        /\ inflight[s].reason = reason
        /\ inflight[s].cancelledBy = cancelledBy
        /\ inflight'[s] = Idle

(* C11: a step of cancelPayment on a payment in awaiting_payment either      *)
(* suspends the call in the remote cancel, writing nothing, or ends it       *)
(* without error with status cancelled and exactly one payment-cancelled     *)
(* event carrying the caller's reason and cancelledBy; this holds whether    *)
(* the remote cancel succeeded, failed or could not be attempted, and no     *)
(* cancelPayment step on such a payment ends with the remote failure.        *)
C11_CancellationResilience ==
    [][(/\ last'.op = "cancelPayment"
        /\ payments[last'.pid] # NoPayment
        /\ payments[last'.pid].status = AWAITING_PAYMENT) =>
          \/ /\ last'.result = "awaiting"
             /\ UNCHANGED <<payments, events>>
          \/ /\ last'.result = "ok"
             /\ payments'[last'.pid].status = CANCELLED
             /\ AppendsOne(PAYMENT_CANCELLED, last'.pid)
             /\ \/ ReturnsCancelOf(last'.pid, events'[Len(events')].data.reason,
                                   events'[Len(events')].data.cancelledBy)
                \/ /\ inflight' = inflight
                   /\ events'[Len(events')].data.reason \in Reasons
                   /\ events'[Len(events')].data.cancelledBy \in CancelledBys]_vars

C11_Witness ==
    /\ last.op = "cancelPayment"
    /\ last.result = "ok"
    /\ last.mapped = "remote_failed"
    /\ payments[last.pid].status = CANCELLED
    /\ events[Len(events)].type = PAYMENT_CANCELLED
    /\ events[Len(events)].data.cancelledBy = "customer"

(* C12: cancelPayment on a payment in any status other than awaiting_payment *)
(* fails with invalid-state, suspends in no provider call and leaves the     *)
(* payment and the event log unchanged.                                      *)
C12_CancelRefused ==
    [][(/\ last'.op = "cancelPayment"
        /\ payments[last'.pid] # NoPayment
        /\ payments[last'.pid].status # AWAITING_PAYMENT) =>
          /\ last'.result = "invalid_state"
          /\ UNCHANGED <<payments, events, inflight>>]_vars

C12_Witness ==
    /\ last.op = "cancelPayment"
    /\ last.result = "invalid_state"
    /\ payments[last.pid].status = INITIATED

HappyLog ==
    <<PAYMENT_INITIATED, PAYMENT_LINK_GENERATED, PAYMENT_PROCESSING_STARTED, PAYMENT_COMPLETED>>

(* C15: after a successful createPayment (log [payment-initiated,            *)
(* payment-link-generated]) a webhook mapped to processing leaves the        *)
(* payment in processing with processing-started as third event, and a       *)
(* webhook mapped to completed after that ends without error with status     *)
(* completed and exactly the four events of the happy path in order.         *)
C15_HappyPath ==
    [][last'.op = "processWebhook" =>
          /\ (/\ last'.mapped = PROCESSING
              /\ EventTypesOf(events, last'.pid) = SubSeq(HappyLog, 1, 2)) =>
                /\ last'.result = "ok"
                /\ payments'[last'.pid].status = PROCESSING
                /\ EventTypesOf(events', last'.pid) = SubSeq(HappyLog, 1, 3)
          /\ (/\ last'.mapped = COMPLETED
              /\ EventTypesOf(events, last'.pid) = SubSeq(HappyLog, 1, 3)) =>
                /\ last'.result = "ok"
                /\ payments'[last'.pid].status = COMPLETED
                /\ EventTypesOf(events', last'.pid) = HappyLog]_vars

C15_Witness ==
    /\ last.op = "processWebhook"
    /\ last.result = "ok"
    /\ last.input.status = "completed"
    /\ payments[last.pid].status = COMPLETED
    /\ payments[last.pid].amount = 1000
    /\ EventTypesOf(events, last.pid) = HappyLog

(* C16: a webhook whose providerId differs from the payment's fails with a  *)
(* validation error before the status string is mapped, whatever the status *)
(* string, and changes no field of the payment and no event.                *)
C16_ProviderMismatch ==
    [][(/\ last'.op = "processWebhook"
        /\ payments[last'.pid] # NoPayment
        /\ last'.input.providerId # payments[last'.pid].providerId) =>
          /\ last'.result = "validation"
          /\ last'.mapped = None
          /\ UNCHANGED <<payments, events>>]_vars

C16_Witness ==
    /\ last.op = "processWebhook"
    /\ last.result = "validation"
    /\ last.input.providerId = "fake"
    /\ last.input.status = "failed"
    /\ payments[last.pid].providerId = "tbank-sbp"
    /\ payments[last.pid].providerTransactionId = None

(* The strings the provider's status table holds, after the provider's case *)
(* folding                                                                  *)
Recognized(provider, status) ==
    IF provider = "fake"
    THEN ToLowerCase(status) \in DOMAIN FakeStatusMap
    ELSE ToUpperCase(status) \in DOMAIN TBankStatusMap

(* C17: a webhook from the payment's own provider with a status string that *)
(* provider does not recognize fails with a validation error and changes    *)
(* neither the status, nor the providerTransactionId, nor the event log.    *)
C17_UnrecognizedStatus ==
    [][(/\ last'.op = "processWebhook"
        /\ payments[last'.pid] # NoPayment
        /\ last'.input.providerId = payments[last'.pid].providerId
        /\ ~Recognized(payments[last'.pid].providerId, last'.input.status)) =>
          /\ last'.result = "validation"
          /\ UNCHANGED <<payments, events>>]_vars

C17_Witness ==
    /\ last.op = "processWebhook"
    /\ last.result = "validation"
    /\ last.input.status = "bogus"
    /\ last.input.providerId = payments[last.pid].providerId
    /\ payments[last.pid].providerTransactionId = None
    /\ payments[last.pid].status = FAILED

(* C18: a step of retryPayment on a payment whose status is not failed ends  *)
(* with an invalid-state error whatever the retry count; the provider is not *)
(* called, no call is left suspended and payments and events are unchanged.  *)
C18_RetryNeedsFailed ==
    [][(/\ last'.op = "retryPayment"
        /\ payments[last'.pid] # NoPayment
        /\ payments[last'.pid].status # FAILED) =>
          /\ last'.result = "invalid_state"
          /\ UNCHANGED <<payments, events, retryCalls, inflight>>]_vars

C18_Witness ==
    /\ last.op = "retryPayment"
    /\ last.result = "invalid_state"
    /\ payments[last.pid].status = AWAITING_PAYMENT
    /\ payments[last.pid].retryCount = MaxRetries

(* The step ends a retryPayment call that was suspended in the provider *)
ReturnsRetryOf(paymentId) ==
    \E s \in Slots :
        /\ inflight[s] # Idle
        /\ inflight[s].op = "retryPayment"
        /\ inflight[s].pid = paymentId
        /\ inflight'[s] = Idle

(* C19: a step that ends a suspended retryPayment with the provider's error  *)
(* leaves the payment as it was, in status failed with the same retry count, *)
(* payment URL and provider transaction id, and appends no event.            *)
C19_FailedRetryLeavesNoTrace ==
    [][(/\ last'.op = "retryPayment"
        /\ ReturnsRetryOf(last'.pid)
        /\ last'.result # "ok") =>
          /\ last'.result = "external"
          /\ payments' = payments
          /\ payments'[last'.pid].status = FAILED
          /\ events' = events]_vars

C19_Witness ==
    /\ last.op = "retryPayment"
    /\ last.result = "external"
    /\ payments[last.pid].status = FAILED
    /\ payments[last.pid].retryCount = 1
    /\ retryCalls[last.pid] = 2
    /\ events[Len(events)].type = PAYMENT_FAILED

(* C20: a step of recordCustomerRedirect on a payment in awaiting_payment    *)
(* succeeds, appends exactly one customer-redirected event and changes no    *)
(* payment; in any other status it ends with an invalid-state error and      *)
(* changes neither payments nor events.                                      *)
C20_RedirectOnlyWhileAwaiting ==
    [][(/\ last'.op = "recordCustomerRedirect"
        /\ payments[last'.pid] # NoPayment) =>
          IF payments[last'.pid].status = AWAITING_PAYMENT
          THEN /\ last'.result = "ok"
               /\ payments' = payments
               /\ AppendsOne(CUSTOMER_REDIRECTED, last'.pid)
          ELSE /\ last'.result = "invalid_state"
               /\ UNCHANGED <<payments, events>>]_vars

C20_Witness ==
    /\ last.op = "recordCustomerRedirect"
    /\ last.result = "ok"
    /\ payments[last.pid].status = AWAITING_PAYMENT
    /\ events[Len(events)].type = CUSTOMER_REDIRECTED
    /\ events[Len(events)].paymentId = last.pid

(* C21: every step of the orchestrator keeps the events already in the log, *)
(* in their places and with the same id, paymentId, type, data and          *)
(* timestamp, and adds zero or more events at the end whose ids occur       *)
(* nowhere else in the log; the events of each payment grow by suffix.      *)
C21_AppendOnlyLog ==
    [][/\ Len(events') >= Len(events)
       /\ SubSeq(events', 1, Len(events)) = events
       /\ \A i \in (Len(events) + 1)..Len(events') :
             \A j \in 1..Len(events') : j # i => events'[j].id # events'[i].id
       /\ \A p \in PaymentIds :
             /\ Len(EventsOf(events', p)) >= Len(EventsOf(events, p))
             /\ SubSeq(EventsOf(events', p), 1, Len(EventsOf(events, p)))
                    = EventsOf(events, p)]_vars

C21_Witness ==
    /\ Len(events) >= 6
    /\ CountType(events, "p1", PAYMENT_FAILED) = 2
    /\ events[1].type = PAYMENT_INITIATED
    /\ \A i, j \in DOMAIN events : i # j => events[i].id # events[j].id

(* C22: no call on the store removes a stored event or puts another event   *)
(* under the id of a stored one.                                            *)
C22_StoreKeepsWhatItHolds ==
    [][\A i \in DOMAIN events : \E j \in DOMAIN events' : events'[j] = events[i]]_vars

CreationFields(payment) ==
    <<payment.id, payment.amount, payment.currency, payment.merchantId,
      payment.description, payment.providerId, payment.createdAt>>

(* C24: no step changes the id, amount, currency, merchantId, description,  *)
(* providerId or createdAt of a stored payment, which are those its         *)
(* payment-initiated event recorded; and a retryPayment call that reaches   *)
(* the provider calls the payment's own provider with its id, amount,       *)
(* currency, description and merchantId.                                    *)
C24_CreationFieldsFrozen ==
    [][\A p \in PaymentIds :
          /\ payments[p] # NoPayment =>
                CreationFields(payments'[p]) = CreationFields(payments[p])
          /\ payments'[p] # NoPayment =>
                \E i \in DOMAIN events' :
                    /\ events'[i].type = PAYMENT_INITIATED
                    /\ events'[i].paymentId = payments'[p].id
                    /\ events'[i].data = [amount |-> payments'[p].amount,
                                          currency |-> payments'[p].currency,
                                          merchantId |-> payments'[p].merchantId,
                                          description |-> payments'[p].description]
          /\ \A s \in Slots :
                (/\ inflight[s] = Idle
                 /\ inflight'[s] # Idle
                 /\ inflight'[s].op = "retryPayment"
                 /\ inflight'[s].pid = p) =>
                   /\ inflight'[s].provider = payments[p].providerId
                   /\ inflight'[s].params = [paymentId |-> payments[p].id,
                                             amount |-> payments[p].amount,
                                             currency |-> payments[p].currency,
                                             description |-> payments[p].description,
                                             merchantId |-> payments[p].merchantId]]_vars

C24_Witness ==
    \E s \in Slots :
        /\ inflight[s] # Idle
        /\ inflight[s].op = "retryPayment"
        /\ inflight[s].provider = "tbank-sbp"
        /\ payments[inflight[s].pid].retryCount = 2
        /\ payments[inflight[s].pid].providerTransactionId = "tx2"

(* The register calls so far that named the id, and those marked default *)
RegisteredUnder(providerId) ==
    SelectSeq(registrations, LAMBDA r : r.provider.id = providerId)

RegisteredAsDefault == SelectSeq(registrations, LAMBDA r : r.isDefault)

(* C25: getProvider(id) returns the provider of the latest register call    *)
(* under that id and fails with not-found when there was none;              *)
(* getDefaultProvider returns the provider of the latest register call      *)
(* marked default and fails with not-found when there was none; a register  *)
(* call not marked default leaves the default as it was.                    *)
C25_RegistryLookup ==
    [][/\ last'.op = "getProvider" =>
            IF RegisteredUnder(last'.input.providerId) = <<>>
            THEN last'.result = "not_found"
            ELSE /\ last'.result = "ok"
                 /\ last'.mapped =
                        RegisteredUnder(last'.input.providerId)[
                            Len(RegisteredUnder(last'.input.providerId))].provider
       /\ last'.op = "getDefaultProvider" =>
            IF RegisteredAsDefault = <<>>
            THEN last'.result = "not_found"
            ELSE /\ last'.result = "ok"
                 /\ last'.mapped = RegisteredAsDefault[Len(RegisteredAsDefault)].provider
       /\ (Len(registrations') = Len(registrations) + 1
            /\ ~registrations'[Len(registrations')].isDefault) =>
              defaultProvider' = defaultProvider]_vars

C25_Witness ==
    /\ last.op = "getProvider"
    /\ last.result = "ok"
    /\ last.mapped = [id |-> "fake", instance |-> 2]
    /\ Len(RegisteredUnder("fake")) = 2
    /\ RegisteredUnder("fake")[1].provider = [id |-> "fake", instance |-> 1]
    /\ defaultProvider = [id |-> "fake", instance |-> 1]

(* C26: no step moves a payment from completed to cancelled, also when the  *)
(* webhooks that completed it were handled while a cancelPayment call for   *)
(* it was suspended in the provider's cancel.                               *)
C26_CompletedNeverCancelled ==
    [][\A p \in PaymentIds :
          (payments[p] # NoPayment /\ payments[p].status = COMPLETED) =>
             payments'[p].status # CANCELLED]_vars

(* C27: the retry count of a payment never exceeds the cap, also when       *)
(* retryPayment calls for it overlap.                                       *)
C27_RetryCountWithinCap ==
    \A p \in PaymentIds : payments[p] # NoPayment => payments[p].retryCount <= MaxRetries

(* C28: Payment.fromJSON applied to what toJSON returned yields a payment   *)
(* equal to the original in every field, the two dates to the millisecond,  *)
(* and PaymentEvent.fromJSON applied to what toJSON returned yields an      *)
(* event equal to the original in id, paymentId, type, data and timestamp.  *)
C28_RoundTrip ==
    /\ last.op = "Payment.fromJSON" => last.mapped = payments[last.input]
    /\ last.op = "PaymentEvent.fromJSON" => last.mapped = events[last.input]

C28_Witness ==
    /\ last.op = "Payment.fromJSON"
    /\ last.mapped = payments[last.input]
    /\ payments[last.input].updatedAt % 1000 # 0
    /\ payments[last.input].createdAt # payments[last.input].updatedAt
    /\ payments[last.input].paymentUrl = None
    /\ events[1].type = PAYMENT_LINK_GENERATED
    /\ events[1].timestamp % 1000 # 0

(* C29: a processWebhook step changes the payment's providerTransactionId   *)
(* only when the payment had none, and then to the one the webhook carried; *)
(* a payment that has one keeps it whatever the webhook carries.            *)
C29_AdoptsOnlyWhenAbsent ==
    [][(last'.op = "processWebhook" /\ payments[last'.pid] # NoPayment) =>
          IF payments[last'.pid].providerTransactionId # None
          THEN payments'[last'.pid].providerTransactionId
                  = payments[last'.pid].providerTransactionId
          ELSE payments'[last'.pid].providerTransactionId
                  \in {None, last'.input.providerTransactionId}]_vars

C29_Witness ==
    /\ last.op = "processWebhook"
    /\ last.result = "ok"
    /\ last.input.providerTransactionId = "tx1"
    /\ payments[last.pid].providerTransactionId = "tx2"
    /\ payments[last.pid].status = PROCESSING

(* The webhook got as far as the switch on a mapped status *)
Dispatched(outcome) == outcome.op = "processWebhook" /\ outcome.mapped \in PaymentStatus

(* C30: when a webhook is handled right after the same webhook for the same *)
(* payment, the second handling leaves the status as it is and appends no   *)
(* event; it returns without error when the status maps to initiated,       *)
(* awaiting_payment or processing and ends with an invalid-state error when *)
(* it maps to completed, failed or cancelled.                               *)
C30_DuplicateDelivery ==
    [][(/\ Dispatched(last)
        /\ Dispatched(last')
        /\ last'.pid = last.pid
        /\ last'.input = last.input) =>
          /\ payments'[last'.pid].status = payments[last'.pid].status
          /\ events' = events
          /\ last'.result = IF last'.mapped \in {INITIATED, AWAITING_PAYMENT, PROCESSING}
                            THEN "ok" ELSE "invalid_state"]_vars

C30_Witness ==
    /\ Dispatched(last)
    /\ last.mapped = FAILED
    /\ last.result = "invalid_state"
    /\ payments[last.pid].status = FAILED
    /\ events[Len(events)].type = PAYMENT_FAILED
    /\ events[Len(events)].data.isRetryable

(* C31: a webhook that carries a providerTransactionId other than the one   *)
(* recorded on the payment changes neither the payment's status nor the     *)
(* event log.                                                               *)
C31_StaleNotificationIgnored ==
    [][(/\ last'.op = "processWebhook"
        /\ payments[last'.pid] # NoPayment
        /\ payments[last'.pid].providerTransactionId # None
        /\ last'.input.providerTransactionId
              # payments[last'.pid].providerTransactionId) =>
          /\ payments'[last'.pid].status = payments[last'.pid].status
          /\ events' = events]_vars

(* C32: a webhook mapped to initiated or awaiting_payment returns without   *)
(* error and appends no event; it moves a payment in initiated to           *)
(* awaiting_payment and leaves the status of a payment in any other status  *)
(* as it is.                                                                *)
C32_PendingWebhook ==
    [][(last'.op = "processWebhook" /\ last'.mapped \in {INITIATED, AWAITING_PAYMENT}) =>
          /\ last'.result = "ok"
          /\ events' = events
          /\ payments'[last'.pid].status =
                IF payments[last'.pid].status = INITIATED
                THEN AWAITING_PAYMENT
                ELSE payments[last'.pid].status]_vars

C32_Witness ==
    /\ last.op = "processWebhook"
    /\ last.mapped = AWAITING_PAYMENT
    /\ last.input.providerId = "tbank-sbp"
    /\ last.result = "ok"
    /\ payments[last.pid].status = AWAITING_PAYMENT
    /\ EventTypesOf(events, last.pid) = <<PAYMENT_INITIATED>>
    /\ \E s \in Slots : inflight[s] # Idle /\ inflight[s].op = "createPayment"

(* The events that record a change of status *)
TransitionEvents ==
    {PAYMENT_LINK_GENERATED, PAYMENT_RETRY_REQUESTED, PAYMENT_PROCESSING_STARTED,
     PAYMENT_COMPLETED, PAYMENT_FAILED, PAYMENT_CANCELLED}

(* C33: a step that changes the status of a payment appends an event for    *)
(* that payment which records the change (link-generated, retry-requested,  *)
(* processing-started, payment-completed, payment-failed or                 *)
(* payment-cancelled), so that a payment never has more changes of status   *)
(* than such events.                                                        *)
C33_EveryTransitionRecorded ==
    [][\A p \in PaymentIds :
          (payments[p] # NoPayment /\ payments'[p].status # payments[p].status) =>
             \E type \in TransitionEvents : AppendsOne(type, p)]_vars

(* C34: updateStatus(target) sets the status to target whatever the current *)
(* status, also where canTransitionTo(target) is false, and changes only    *)
(* status and updatedAt; setPaymentUrl, setProviderTransactionId and        *)
(* incrementRetryCount change only their own field, retryCount by exactly   *)
(* one, and updatedAt; updatedAt never decreases and is never earlier than  *)
(* createdAt.                                                               *)
C34_EntityMutators ==
    [][\A p \in PaymentIds :
          /\ (last'.op = "updateStatus" /\ last'.pid = p) =>
                payments'[p] = [payments[p] EXCEPT !.status = last'.mapped,
                                                   !.updatedAt = payments'[p].updatedAt]
          /\ (last'.op = "setPaymentUrl" /\ last'.pid = p) =>
                payments'[p] = [payments[p] EXCEPT !.paymentUrl = payments'[p].paymentUrl,
                                                   !.updatedAt = payments'[p].updatedAt]
          /\ (last'.op = "setProviderTransactionId" /\ last'.pid = p) =>
                payments'[p] = [payments[p] EXCEPT
                                   !.providerTransactionId = payments'[p].providerTransactionId,
                                   !.updatedAt = payments'[p].updatedAt]
          /\ (last'.op = "incrementRetryCount" /\ last'.pid = p) =>
                payments'[p] = [payments[p] EXCEPT !.retryCount = payments[p].retryCount + 1,
                                                   !.updatedAt = payments'[p].updatedAt]
          /\ payments'[p].updatedAt >= payments[p].updatedAt
          /\ payments'[p].updatedAt >= payments'[p].createdAt]_vars

C34_Witness ==
    /\ last.op = "updateStatus"
    /\ last.mapped = INITIATED
    /\ payments[last.pid].status = INITIATED
    /\ payments[last.pid].retryCount = MaxRetries
    /\ payments[last.pid].providerTransactionId = "tx2"
    /\ payments[last.pid].updatedAt = MaxClock
    /\ payments[last.pid].createdAt = 0

(* C35: a processWebhook call that ends with an error (payment not found,   *)
(* provider mismatch, unrecognized status, invalid state) leaves every      *)
(* field of every payment, providerTransactionId and updatedAt included,    *)
(* and the event log as they were.                                          *)
C35_FailedWebhookChangesNothing ==
    [][(last'.op = "processWebhook" /\ last'.result # "ok") =>
          /\ payments' = payments
          /\ events' = events]_vars

(* C36: with the operations run one at a time the log of a payment holds at *)
(* most one payment-completed and at most one payment-cancelled event,      *)
(* never both, and the payment is completed exactly when its log holds a    *)
(* payment-completed event and cancelled exactly when it holds a            *)
(* payment-cancelled event.                                                 *)
C36_NoDoubleCompletion ==
    \A p \in PaymentIds :
        payments[p] # NoPayment =>
            /\ CountType(events, p, PAYMENT_COMPLETED) <= 1
            /\ CountType(events, p, PAYMENT_CANCELLED) <= 1
            /\ CountType(events, p, PAYMENT_COMPLETED)
                  + CountType(events, p, PAYMENT_CANCELLED) <= 1
            /\ (payments[p].status = COMPLETED) = (CountType(events, p, PAYMENT_COMPLETED) = 1)
            /\ (payments[p].status = CANCELLED) = (CountType(events, p, PAYMENT_CANCELLED) = 1)

C36_Witness ==
    /\ last.op = "processWebhook"
    /\ last.mapped = CANCELLED
    /\ last.result = "invalid_state"
    /\ payments[last.pid].status = COMPLETED
    /\ payments[last.pid].retryCount = 1
    /\ CountType(events, last.pid, PAYMENT_COMPLETED) = 1
    /\ CountType(events, last.pid, PAYMENT_CANCELLED) = 0

(* C37: with the operations run one at a time a payment in awaiting_payment, *)
(* processing, completed or cancelled has a providerTransactionId and a      *)
(* paymentUrl; a payment that lacks one of them is in initiated, or in       *)
(* failed with no successful retry after a creation that failed.             *)
C37_ProviderDataPresent ==
    \A p \in PaymentIds :
        payments[p] # NoPayment =>
            /\ payments[p].status \in {AWAITING_PAYMENT, PROCESSING, COMPLETED, CANCELLED} =>
                  /\ payments[p].providerTransactionId # None
                  /\ payments[p].paymentUrl # None
            /\ (payments[p].providerTransactionId = None \/ payments[p].paymentUrl = None) =>
                  \/ payments[p].status = INITIATED
                  \/ /\ payments[p].status = FAILED
                     /\ payments[p].retryCount = 0
                     /\ Len(EventsOf(events, p)) >= 2
                     /\ EventsOf(events, p)[2].type = PAYMENT_FAILED
                     /\ EventsOf(events, p)[2].data.isRetryable = FALSE

C37_Witness ==
    /\ last.op = "cancelPayment"
    /\ last.result = "ok"
    /\ payments[last.pid].status = CANCELLED
    /\ payments[last.pid].providerTransactionId = "tx1"
    /\ payments[last.pid].paymentUrl = "pay/tx1"
    /\ payments[last.pid].retryCount = 1
    /\ EventsOf(events, last.pid)[2].type = PAYMENT_FAILED
    /\ EventsOf(events, last.pid)[2].data.isRetryable = FALSE

(* C38: a payment in failed with retryCount 3 is not final, yet no step     *)
(* taken afterwards (retryPayment, cancelPayment, recordCustomerRedirect or *)
(* a webhook with any status) changes its status or its retryCount or       *)
(* appends an event for it.                                                 *)
C38_ExhaustedFailureIsStuck ==
    [][\A p \in PaymentIds :
          (/\ payments[p] # NoPayment
           /\ payments[p].status = FAILED
           /\ payments[p].retryCount = MaxRetries) =>
             /\ ~IsFinal(payments[p])
             /\ payments'[p].status = FAILED
             /\ payments'[p].retryCount = MaxRetries
             /\ EventsOf(events', p) = EventsOf(events, p)
             /\ \A s \in Slots : inflight'[s] = Idle]_vars

C38_Witness ==
    /\ last.op = "cancelPayment"
    /\ last.result = "invalid_state"
    /\ payments[last.pid].status = FAILED
    /\ payments[last.pid].retryCount = MaxRetries
    /\ ~IsFinal(payments[last.pid])

(* How far a status is from the end of the lifecycle along the table *)
StatusRank(status) ==
    CASE status = INITIATED -> 4
      [] status = AWAITING_PAYMENT -> 3
      [] status = PROCESSING -> 2
      [] status = FAILED -> 1
      [] OTHER -> 0

(* A bound on the status changes the payment still has before it *)
Remaining(payment) == 4 * (MaxRetries - payment.retryCount) + StatusRank(payment.status)

(* C39: with the operations run one at a time the status of a payment       *)
(* changes only finitely often in any sequence of operations, however long: *)
(* every change of status lowers a bound that is never negative, a payment  *)
(* enters awaiting_payment from initiated once, at creation, and from       *)
(* failed only by a retry that raises retryCount by one up to 3, and from   *)
(* some point on no step changes the status.                                *)
C39_FiniteLifecycle ==
    /\ [][\A p \in PaymentIds :
             (payments[p] # NoPayment /\ payments'[p].status # payments[p].status) =>
                /\ Remaining(payments'[p]) < Remaining(payments[p])
                /\ Remaining(payments'[p]) >= 0
                /\ payments'[p].status = AWAITING_PAYMENT =>
                      \/ /\ payments[p].status = INITIATED
                         /\ payments'[p].retryCount = 0
                      \/ /\ payments[p].status = FAILED
                         /\ payments'[p].retryCount = payments[p].retryCount + 1
                         /\ payments'[p].retryCount <= MaxRetries]_vars
    /\ <>[][\A p \in PaymentIds :
               payments[p] # NoPayment => payments'[p].status = payments[p].status]_vars

C39_Witness ==
    /\ last.op = "processWebhook"
    /\ last.result = "ok"
    /\ payments[last.pid].status = COMPLETED
    /\ payments[last.pid].retryCount = MaxRetries
    /\ CountType(events, last.pid, PAYMENT_LINK_GENERATED) = 1
    /\ CountType(events, last.pid, PAYMENT_RETRY_REQUESTED) = MaxRetries

(* C40: after any sequence of register calls the default provider, when one *)
(* is set, is the provider the registry holds under the default's id:       *)
(* getProvider(getDefaultProvider().id) returns the very object that        *)
(* getDefaultProvider returns.                                              *)
C40_DefaultIsRegistered ==
    defaultProvider # NoProvider => LookupProvider(defaultProvider.id) = defaultProvider

====
